---- MODULE Spec2Model ----
(***************************************************************************)
(* Model of the geospatial ETL scripts of zohran-ghs-dashboard:            *)
(*   - notebooks/storm_water_ranked_join.py          (Stormwater pipeline) *)
(*   - notebooks/hurricaneEvac_HeatIndex_...py       (Hurricane pipeline)  *)
(*   - notebooks/andre_working/process_air_pollution_and_join.py           *)
(*       write_output_gdb                            (FileGDB writer)      *)
(* Every script is a linear batch job; each is one specification here      *)
(* (SpecStorm, SpecHurricane, SpecGdb), one action per section of the      *)
(* script.  The variables of the scripts that a specification does not run *)
(* keep their initial value.                                               *)
(***************************************************************************)
EXTENDS Integers, Sequences, FiniteSets, TLC

VARIABLES
    \* ---- storm_water_ranked_join.py
    sw_pc,          \* section of the script that runs next
    schools_gdf,    \* school points after the null/empty filter, with __pt_id
    buffers_gdf,    \* 300 ft buffers: __pt_id + geometry
    storm_keep,     \* stormwater polygons kept for the join
    joined,         \* result of the left 'intersects' join
    best,           \* one ranked candidate per __pt_id
    out_points,     \* the written point collection
    \* ---- hurricaneEvac_HeatIndex_distEvacCenters_distCoolingCenters.py
    hz_pc,                  \* section of the script that runs next
    hz_schools_in,          \* the school layer as read (Section 2)
    hz_schools_gdf,         \* schools_gdf: rows [idx, cols]
    hurricane_gdf,          \* evacuation zone polygons
    heat_index_gdf,         \* heat index polygons
    evac_centers_gdf,       \* evacuation centre points
    cooling_centers_gdf,    \* cooling centre points
    schools_proj,           \* schools projected to EPSG:2263 (Section 6)
    schools_nearest_evac,   \* result of the nearest join with evac centres
    schools_nearest_cool,   \* result of the nearest join with cooling centres
    hz_exported,            \* the layer written to the GeoPackage
    hz_crs,                 \* CRS of each layer variable
    hz_to_crs_calls,        \* the to_crs calls made so far
    \* ---- process_air_pollution_and_join.py: write_output_gdb
    gdb_pc,             \* step of write_output_gdb that runs next
    gdf,                \* the table passed in
    gdal,               \* the GDAL build: drivers and what they can do
    gdb_disk,           \* what is stored at out_gdb_path
    gdb_existed,        \* os.path.exists(out_gdb_path) at line 261
    gdf_out_columns,    \* gdf_out.columns
    ogr_driver,         \* the selected driver
    field_type_map,     \* OGR type of each created field
    lyr_features,       \* features written to the layer
    gdb_error,          \* the exception raised, if any
    \* ---- andre_working/snap_points_by_BuildingCode.py
    snap_pc,            \* section of the script that runs next
    snap_in,            \* the input GeoJSON as read: columns and rows
    snap_gdf,           \* gdf: the rows being edited
    snap_targets,       \* targets: code -> <<x, y>>
    snap_mask,          \* mask: one boolean per row
    snap_out,           \* the rows written to the output GeoJSON
    \* ---- process_air_pollution_and_join.py: the main block
    air_pc,             \* step of the main block that runs next
    air_env,            \* what the run finds on disk and in GDAL
    air_k,              \* position in target_grids of the running loop
    air_tifs,           \* GeoTIFFs written to out_folder
    air_layer,          \* schools_layer
    air_schools,        \* schools_gdf as read
    air_vals,           \* sampled_vals of every grid sampled so far
    air_error,          \* the exception that ended the run, if any
    \* ---- apps/streamlit_app.py
    dash_pc,            \* "new" before the first run of a session, then "live"
    dash_src,           \* the two GeoJSON files the layers are loaded from
    layer_states,       \* st.session_state.layer_states
    legend,             \* state of the legend checkboxes, by layer
    show_non_dac,       \* state of the sidebar checkbox
    pydeck_layers,      \* layers of the deck of the last run
    map_selection,      \* map_data.selection["objects"] of the last run
    panel               \* what the last run shows under the map

swVars == <<sw_pc, schools_gdf, buffers_gdf, storm_keep, joined, best, out_points>>

hzVars == <<hz_pc, hz_schools_in, hz_schools_gdf, hurricane_gdf, heat_index_gdf,
           evac_centers_gdf, cooling_centers_gdf, schools_proj,
           schools_nearest_evac, schools_nearest_cool, hz_exported,
           hz_crs, hz_to_crs_calls>>

gdbVars == <<gdb_pc, gdf, gdal, gdb_disk, gdb_existed, gdf_out_columns, ogr_driver,
            field_type_map, lyr_features, gdb_error>>

snapVars == <<snap_pc, snap_in, snap_gdf, snap_targets, snap_mask, snap_out>>

airVars == <<air_pc, air_env, air_k, air_tifs, air_layer, air_schools, air_vals,
            air_error>>

dashVars == <<dash_pc, dash_src, layer_states, legend, show_non_dac, pydeck_layers,
             map_selection, panel>>

\* The scripts modelled after the first three.
extVars == <<snapVars, airVars, dashVars>>

\* What a script other than the named one leaves alone.
notSnap == <<swVars, hzVars, gdbVars, airVars, dashVars>>
notAir == <<swVars, hzVars, snapVars, dashVars>>
notDash == <<swVars, hzVars, gdbVars, snapVars, airVars>>

vars == <<swVars, hzVars, gdbVars, extVars>>

(***************************************************************************)
(* Bounds of the model.                                                    *)
(***************************************************************************)
MaxSchools == 2     \* rows of the school file
MaxPolys == 2       \* rows of the stormwater file
MaxPos == 1         \* school points lie on grid steps 0..MaxPos
MaxRisk == 2        \* integer risk values 1..MaxRisk
HzMaxSchools == 2   \* rows of the school layer of the hurricane script
HzMaxZones == 2     \* polygons per zone / heat index layer
HzMaxCenters == 2   \* points per centre layer
HzMaxPos == 2       \* school points lie on grid steps 0..HzMaxPos
MaxCols == 3        \* attribute columns of the table given to write_output_gdb
MaxRows == 2        \* rows of the table given to write_output_gdb
MaxSnapRows == 3    \* rows of the layer to snap, codes and geometries mixed
MaxCellRows == 2    \* rows of the layer to snap, lat/lng cells mixed
MaxWidth == 2       \* pixels of a raster
MaxAirPoints == 2   \* rows of the school layer that is sampled
MaxLayers == 2      \* layers of the input geodatabase
MaxFeatures == 2    \* features of a source file of the dashboard

(***************************************************************************)
(* Generic helpers.                                                        *)
(***************************************************************************)
SeqsUpTo(S, n) == UNION {[1..k -> S] : k \in 0..n}

NonEmptySeqsUpTo(S, n) == UNION {[1..k -> S] : k \in 1..n}

Abs(i) == IF i < 0 THEN -i ELSE i

RECURSIVE Flatten(_)
Flatten(ss) == IF ss = <<>> THEN <<>> ELSE Head(ss) \o Flatten(Tail(ss))

\* Positions of a sequence whose element satisfies Test, in sequence order.
RECURSIVE SelectIdx(_, _, _)
SelectIdx(s, Test(_), i) ==
    IF i > Len(s) THEN <<>>
    ELSE (IF Test(s[i]) THEN <<i>> ELSE <<>>) \o SelectIdx(s, Test, i + 1)

(***************************************************************************)
(* storm_water_ranked_join.py                                              *)
(***************************************************************************)
no_risk_label == "No forecasted risk of stormwater flooding"
no_risk_value == 0
buffer_distance_ft == 300

\* A missing value of a pandas column (None / NaN).
NaN == "NaN"

\* Geometries: null, empty, or a location on a line (x in feet once projected).
NullGeom == [kind |-> "null", x |-> 0]
EmptyGeom == [kind |-> "empty", x |-> 0]
Point(x) == [kind |-> "point", x |-> x]
Polygon(x) == [kind |-> "polygon", x |-> x]

notnull(g) == g.kind # "null"
is_empty(g) == g.kind = "empty"

\* Raw values of the risk column of the stormwater file.
NullRisk == [kind |-> "null", v |-> 0]
TextRisk == [kind |-> "text", v |-> 0]
IntRisk(n) == [kind |-> "int", v |-> n]
NumTextRisk(n) == [kind |-> "numtext", v |-> n]
RawRisks == {NullRisk, TextRisk, NumTextRisk(1)} \cup {IntRisk(n) : n \in 1..MaxRisk}

ScenarioTexts == {NaN, "Scenario A", "Scenario B"}
CategoryTexts == {NaN, "Category X"}

\* The school file: one geometry per row; `name` stands for the original
\* attributes of the row (unique per row of the file).
SchoolGeoms == {NullGeom, EmptyGeom} \cup {Point(k) : k \in 0..MaxPos}
SchoolFiles == NonEmptySeqsUpTo(SchoolGeoms, MaxSchools)

\* The stormwater file: rows with geometry and the three needed fields.
\* Three families of files are explored.
\*  - plain rows: any geometry (null, empty, a polygon every 600 ft), one
\*    risk and one pair of texts;
\*  - risk rows: polygons at 0 ft and 600 ft with every kind of risk value;
\*  - text rows: polygons at 0 ft and 600 ft with every mix of texts.
PlainStormRows ==
    [geometry : {NullGeom, EmptyGeom} \cup {Polygon(600 * k) : k \in 0..MaxPos},
     scen : {"Scenario A"}, cat : {"Category X"}, risk : {IntRisk(1)}]
RiskStormRows ==
    {[geometry |-> g, scen |-> t[1], cat |-> t[2], risk |-> r] :
        g \in {Polygon(0), Polygon(600)},
        t \in {<<"Scenario A", "Category X">>, <<"Scenario B", "Category Y">>},
        r \in RawRisks}
TextStormRows ==
    [geometry : {Polygon(0), Polygon(600)},
     scen : ScenarioTexts, cat : CategoryTexts,
     risk : {IntRisk(n) : n \in 1..MaxRisk}]

PlainStormFiles == SeqsUpTo(PlainStormRows, MaxPolys)
RichStormFiles ==
    SeqsUpTo(RiskStormRows, MaxPolys) \cup SeqsUpTo(TextStormRows, MaxPolys)

\* The stormwater files explored with a given school collection: the risk
\* and text families with a collection of one point (the first row of the
\* school file), the plain family with every collection.
StormFiles(schools) ==
    IF Len(schools) = 1 /\ schools[1].name = 1
    THEN PlainStormFiles \cup RichStormFiles
    ELSE PlainStormFiles

\* gpd.read_file + notnull / ~is_empty filters + reset_index + __pt_id.
read_school_points(file) ==
    LET keep == SelectIdx(file, LAMBDA g : notnull(g) /\ ~is_empty(g), 1)
    IN  [i \in 1..Len(keep) |->
            [pt_id |-> i - 1, name |-> keep[i], geometry |-> file[keep[i]]]]

\* to_crs(epsg=2263): one grid step of the source CRS is 300 ft.
to_crs(g) == IF g.kind = "point" THEN [g EXCEPT !.x = 300 * @] ELSE g

\* geometry.buffer(d): a disk, kept as centre and radius.
buffer(g, d) == [kind |-> "buffer", x |-> g.x, r |-> d]

project_buffer(schools) ==
    LET schools_2263 == [i \in 1..Len(schools) |->
                            [schools[i] EXCEPT !.geometry = to_crs(@)]]
        bufs == [i \in 1..Len(schools_2263) |->
                    [pt_id |-> schools_2263[i].pt_id,
                     geometry |-> buffer(schools_2263[i].geometry,
                                         buffer_distance_ft)]]
    IN  SelectSeq(bufs, LAMBDA b : notnull(b.geometry) /\ ~is_empty(b.geometry))

\* storm_gdf[needed] + notnull / ~is_empty filters; the index is not reset,
\* so idx is the row label of the stormwater file (the reference id).
read_stormwater(file) ==
    LET keep == SelectIdx(file,
                    LAMBDA p : notnull(p.geometry) /\ ~is_empty(p.geometry), 1)
    IN  [i \in 1..Len(keep) |->
            [idx |-> keep[i] - 1, geometry |-> file[keep[i]].geometry,
             scen |-> file[keep[i]].scen, cat |-> file[keep[i]].cat,
             risk |-> file[keep[i]].risk]]

\* predicate="intersects": overlap or boundary touch.
intersects(b, p) == Abs(b.x - p.x) <= b.r

\* gpd.sjoin(buffers, storm_keep, how="left", predicate="intersects"): one row
\* per intersecting (buffer, polygon) pair, one all-NaN row for a buffer with
\* no match (index_right -1 stands for NaN).  `order` is the order in which
\* the spatial index returns the polygons; the script does not fix it.
sjoin(left, right, order) ==
    Flatten([i \in 1..Len(left) |->
        LET hits == SelectSeq(order,
                        LAMBDA j : intersects(left[i].geometry, right[j].geometry))
        IN  IF hits = <<>>
            THEN <<[pt_id |-> left[i].pt_id, index_right |-> -1,
                    scen |-> NaN, cat |-> NaN, risk |-> NullRisk]>>
            ELSE [k \in 1..Len(hits) |->
                    [pt_id |-> left[i].pt_id, index_right |-> right[hits[k]].idx,
                     scen |-> right[hits[k]].scen, cat |-> right[hits[k]].cat,
                     risk |-> right[hits[k]].risk]]])

\* pd.to_numeric(errors="coerce"): "1" becomes 1, other text becomes NaN.
to_numeric(r) == IF r.kind \in {"int", "numtext"} THEN IntRisk(r.v) ELSE NullRisk

\* A ranking that keeps the candidates without a risk number, as risk 0.
rank_candidates_keeps_all(rows) ==
    LET matched == SelectSeq(rows, LAMBDA c : c.index_right # -1)
    IN  [i \in 1..Len(matched) |->
            [matched[i] EXCEPT !.risk =
                IF to_numeric(@).kind = "null" THEN 0 ELSE to_numeric(@).v]]

\* dropna + to_numeric + dropna + astype(int): the risk column becomes int.
rank_candidates(rows) ==
    LET matched == SelectSeq(rows, LAMBDA c : c.risk.kind # "null")
        coerced == [i \in 1..Len(matched) |->
                        [matched[i] EXCEPT !.risk = to_numeric(@)]]
        numeric == SelectSeq(coerced, LAMBDA c : c.risk.kind # "null")
    IN  [i \in 1..Len(numeric) |-> [numeric[i] EXCEPT !.risk = @.v]]

\* Row order of sort_values(["__pt_id", risk], ascending=[True, True]).
sort_key_le_unstable(a, b) ==
    a.pt_id < b.pt_id \/ (a.pt_id = b.pt_id /\ a.risk < b.risk)

sort_key_le(a, b) ==
    a.pt_id < b.pt_id \/ (a.pt_id = b.pt_id /\ a.risk <= b.risk)

\* Stable insertion: r goes behind every row whose key is <= its own.
RECURSIVE sort_insert(_, _)
sort_insert(r, s) ==
    IF s = <<>> THEN <<r>>
    ELSE IF sort_key_le(Head(s), r)
         THEN <<Head(s)>> \o sort_insert(r, Tail(s))
         ELSE <<r>> \o s

\* A multi-column sort_values is a stable (lexsort) sort.
RECURSIVE sort_values(_)
sort_values(rows) ==
    IF rows = <<>> THEN <<>>
    ELSE sort_insert(rows[Len(rows)], sort_values(SubSeq(rows, 1, Len(rows) - 1)))

drop_duplicates_keeps_all(rows) == rows

\* drop_duplicates(subset=["__pt_id"], keep="first").
drop_duplicates(rows) ==
    LET keep == {i \in 1..Len(rows) :
                    \A j \in 1..(i - 1) : rows[j].pt_id # rows[i].pt_id}
        idx == SelectIdx([i \in 1..Len(rows) |-> i], LAMBDA i : i \in keep, 1)
    IN  [k \in 1..Len(idx) |-> rows[idx[k]]]

\* The `best` expression: sort, de-duplicate, keep the four columns.
pick_best(ranked) ==
    LET b == drop_duplicates(sort_values(ranked))
    IN  [i \in 1..Len(b) |->
            [pt_id |-> b[i].pt_id, scen |-> b[i].scen, cat |-> b[i].cat,
             risk |-> b[i].risk]]

\* schools_gdf.merge(best, on="__pt_id", how="left").
merge(schools, right) ==
    Flatten([i \in 1..Len(schools) |->
        LET m == SelectSeq(right, LAMBDA b : b.pt_id = schools[i].pt_id)
        IN  IF m = <<>>
            THEN <<[name |-> schools[i].name, geometry |-> schools[i].geometry,
                    scen |-> NaN, cat |-> NaN, risk |-> NullRisk]>>
            ELSE [k \in 1..Len(m) |->
                    [name |-> schools[i].name, geometry |-> schools[i].geometry,
                     scen |-> m[k].scen, cat |-> m[k].cat,
                     risk |-> IntRisk(m[k].risk)]]])

fillna_keeps_nan(v, default) == v

\* Series.fillna(default) on one text cell.
fillna(v, default) == IF v = NaN THEN default ELSE v

\* Series.fillna(default).astype(int) on one risk cell.
fillna_risk(r, default) == IF r.kind = "null" THEN default ELSE r.v

\* Fill defaults + drop the helper id.
fill_defaults(rows) ==
    [i \in 1..Len(rows) |->
        [name |-> rows[i].name, geometry |-> rows[i].geometry,
         scen |-> fillna(rows[i].scen, no_risk_label),
         cat |-> fillna(rows[i].cat, no_risk_label),
         risk |-> fillna_risk(rows[i].risk, no_risk_value)]]

\* The snapping script does not run.
SnapIdle ==
    /\ snap_pc = "idle"
    /\ snap_in = <<>>
    /\ snap_gdf = <<>>
    /\ snap_targets = <<>>
    /\ snap_mask = <<>>
    /\ snap_out = <<>>

\* The main block of the air pollution script does not run.
AirIdle ==
    /\ air_pc = "idle"
    /\ air_env = <<>>
    /\ air_k = 1
    /\ air_tifs = {}
    /\ air_layer = 0
    /\ air_schools = <<>>
    /\ air_vals = <<>>
    /\ air_error = "none"

\* No dashboard session.
DashIdle ==
    /\ dash_pc = "idle"
    /\ dash_src = <<>>
    /\ layer_states = <<>>
    /\ legend = <<>>
    /\ show_non_dac = FALSE
    /\ pydeck_layers = <<>>
    /\ map_selection = <<>>
    /\ panel = <<>>

\* None of the later scripts runs.
ExtIdle == SnapIdle /\ AirIdle /\ DashIdle

\* write_output_gdb is not called.
GdbIdle ==
    /\ gdb_pc = "idle"
    /\ gdf = <<>>
    /\ gdal = <<>>
    /\ gdb_disk = "none"
    /\ gdf_out_columns = <<>>
    /\ ogr_driver = "None"
    /\ field_type_map = <<>>
    /\ lyr_features = <<>>
    /\ gdb_existed = FALSE
    /\ gdb_error = "none"

\* The other scripts do not run.
HzIdle ==
    /\ hz_pc = "idle"
    /\ hz_schools_in = <<>>
    /\ hz_schools_gdf = <<>>
    /\ hurricane_gdf = <<>>
    /\ heat_index_gdf = <<>>
    /\ evac_centers_gdf = <<>>
    /\ cooling_centers_gdf = <<>>
    /\ schools_proj = <<>>
    /\ schools_nearest_evac = <<>>
    /\ schools_nearest_cool = <<>>
    /\ hz_exported = <<>>
    /\ hz_crs = <<>>
    /\ hz_to_crs_calls = <<>>

---------------------------------------------------------------------------
\* Sections of the script, in order.

ReadSchoolPoints ==
    /\ sw_pc = "read_schools"
    /\ \E file \in SchoolFiles : schools_gdf' = read_school_points(file)
    /\ sw_pc' = "buffer"
    /\ UNCHANGED <<buffers_gdf, storm_keep, joined, best, out_points>>
    /\ UNCHANGED <<hzVars, gdbVars, extVars>>

ProjectBuffer ==
    /\ sw_pc = "buffer"
    /\ buffers_gdf' = project_buffer(schools_gdf)
    /\ sw_pc' = "read_storm"
    /\ UNCHANGED <<schools_gdf, storm_keep, joined, best, out_points>>
    /\ UNCHANGED <<hzVars, gdbVars, extVars>>

ReadStormwater ==
    /\ sw_pc = "read_storm"
    /\ \E file \in StormFiles(schools_gdf) : storm_keep' = read_stormwater(file)
    /\ sw_pc' = "sjoin"
    /\ UNCHANGED <<schools_gdf, buffers_gdf, joined, best, out_points>>
    /\ UNCHANGED <<hzVars, gdbVars, extVars>>

SpatialJoin ==
    /\ sw_pc = "sjoin"
    /\ \E order \in Permutations(1..Len(storm_keep)) :
          joined' = sjoin(buffers_gdf, storm_keep,
                          [k \in 1..Len(storm_keep) |-> order[k]])
    /\ sw_pc' = "best"
    /\ UNCHANGED <<schools_gdf, buffers_gdf, storm_keep, best, out_points>>
    /\ UNCHANGED <<hzVars, gdbVars, extVars>>

PickBest ==
    /\ sw_pc = "best"
    /\ best' = pick_best(rank_candidates(joined))
    /\ sw_pc' = "merge"
    /\ UNCHANGED <<schools_gdf, buffers_gdf, storm_keep, joined, out_points>>
    /\ UNCHANGED <<hzVars, gdbVars, extVars>>

MergeBack ==
    /\ sw_pc = "merge"
    /\ out_points' = fill_defaults(merge(schools_gdf, best))
    /\ sw_pc' = "write"
    /\ UNCHANGED <<schools_gdf, buffers_gdf, storm_keep, joined, best>>
    /\ UNCHANGED <<hzVars, gdbVars, extVars>>

WriteOutputs ==
    /\ sw_pc = "write"
    /\ sw_pc' = "done"
    /\ UNCHANGED <<schools_gdf, buffers_gdf, storm_keep, joined, best, out_points>>
    /\ UNCHANGED <<hzVars, gdbVars, extVars>>

StormInit ==
    /\ HzIdle
    /\ GdbIdle
    /\ ExtIdle
    /\ sw_pc = "read_schools"
    /\ schools_gdf = <<>>
    /\ buffers_gdf = <<>>
    /\ storm_keep = <<>>
    /\ joined = <<>>
    /\ best = <<>>
    /\ out_points = <<>>

StormNext ==
    \/ ReadSchoolPoints
    \/ ProjectBuffer
    \/ ReadStormwater
    \/ SpatialJoin
    \/ PickBest
    \/ MergeBack
    \/ WriteOutputs

SpecStorm == StormInit /\ [][StormNext]_vars

(***************************************************************************)
(* hurricaneEvac_HeatIndex_distEvacCenters_distCoolingCenters.py           *)
(*                                                                         *)
(* A row of schools_gdf is [idx |-> index label, cols |-> column values].  *)
(* Points lie on grid steps of a line; a zone or heat index polygon is the *)
(* closed unit interval [lo, lo + 1], so that neighbouring polygons share  *)
(* their boundary point.  A layer is stored in its own CRS: one grid step  *)
(* is one unit of EPSG:4326 and 5280 units (feet) of EPSG:2263.            *)
(***************************************************************************)
hurricane_field_name == "hurricane_"
joined_hurricane_field == "hurricane_evacZone"
heat_index_field_name == "OHEI_Class"
joined_heat_index_field == "OHEI"
distance_field_evac == "evacCenters_distance_mi"
distance_field_cooling == "cooling_centers_distance_mi"
nyc_projected_crs == "EPSG:2263"

HzLayerNames == {"schools", "hurricane", "heat", "evac", "cool"}
HzCrsValues == {"EPSG:4326", "EPSG:2263", "None"}

HzSchoolLayers ==
    {[i \in 1..Len(xs) |->
        [idx |-> i - 1, cols |-> [name |-> i, geometry |-> Point(xs[i])]]] :
     xs \in NonEmptySeqsUpTo(0..HzMaxPos, HzMaxSchools)}

\* Polygon k of a layer carries the value ToString(k) in its kept field.
HzPolygonLayers(field) ==
    {[k \in 1..Len(los) |->
        [idx |-> k - 1,
         cols |-> (field :> ToString(k)) @@
                  [geometry |-> [kind |-> "polygon", lo |-> los[k], hi |-> los[k] + 1]]]] :
     los \in SeqsUpTo(0..(HzMaxPos - 1), HzMaxZones)}

\* Centres stand on the even grid steps.
HzCenterLayers ==
    {[k \in 1..Len(xs) |-> [idx |-> k - 1, cols |-> [geometry |-> Point(xs[k])]]] :
     xs \in NonEmptySeqsUpTo({2 * j : j \in 0..(HzMaxPos \div 2)}, HzMaxCenters)}

\* Small layers for the runs that vary something else.
OneSchool == <<[idx |-> 0, cols |-> [name |-> 1, geometry |-> Point(1)]]>>
OneCentre == <<[idx |-> 0, cols |-> [geometry |-> Point(0)]]>>
OnePolygon(field) ==
    <<[idx |-> 0,
       cols |-> (field :> "1") @@
                [geometry |-> [kind |-> "polygon", lo |-> 0, hi |-> 1]]]>>

\* Columns a school layer may carry besides name and geometry.
HzExtraColumns == {"index_no", hurricane_field_name}

with_columns(layer, extra) ==
    [i \in 1..Len(layer) |->
        [layer[i] EXCEPT !.cols = [c \in extra |-> "x"] @@ @]]

SameCrs(c) == [l \in HzLayerNames |-> c]

\* The inputs of a run: school points against the polygons of one layer and
\* against the centres of one layer, one school against two layers at once,
\* every mix of CRSs, and school layers with more columns.
HzInputs ==
    {[schools |-> s, hurricane |-> h, heat |-> <<>>, evac |-> OneCentre,
      cool |-> OneCentre, crs |-> SameCrs("EPSG:4326")] :
        s \in HzSchoolLayers, h \in HzPolygonLayers(hurricane_field_name)}
    \cup
    {[schools |-> s, hurricane |-> <<>>, heat |-> h, evac |-> OneCentre,
      cool |-> OneCentre, crs |-> SameCrs("EPSG:4326")] :
        s \in HzSchoolLayers, h \in HzPolygonLayers(heat_index_field_name)}
    \cup
    {[schools |-> s, hurricane |-> h, heat |-> hi, evac |-> OneCentre,
      cool |-> OneCentre, crs |-> SameCrs("EPSG:4326")] :
        s \in {l \in HzSchoolLayers : Len(l) = 1},
        h \in HzPolygonLayers(hurricane_field_name),
        hi \in HzPolygonLayers(heat_index_field_name)}
    \cup
    {[schools |-> s, hurricane |-> <<>>, heat |-> <<>>, evac |-> e,
      cool |-> c, crs |-> SameCrs("EPSG:4326")] :
        s \in HzSchoolLayers,
        e \in HzCenterLayers, c \in {OneCentre}}
    \cup
    {[schools |-> s, hurricane |-> <<>>, heat |-> <<>>, evac |-> e,
      cool |-> c, crs |-> SameCrs("EPSG:4326")] :
        s \in {l \in HzSchoolLayers : Len(l) = 1},
        e \in HzCenterLayers, c \in HzCenterLayers}
    \cup
    {[schools |-> OneSchool, hurricane |-> OnePolygon(hurricane_field_name),
      heat |-> OnePolygon(heat_index_field_name), evac |-> OneCentre,
      cool |-> OneCentre, crs |-> crs] :
        crs \in [HzLayerNames -> HzCrsValues]}
    \cup
    {[schools |-> with_columns(OneSchool, extra),
      hurricane |-> OnePolygon(hurricane_field_name),
      heat |-> OnePolygon(heat_index_field_name), evac |-> OneCentre,
      cool |-> OneCentre, crs |-> SameCrs("EPSG:4326")] :
        extra \in SUBSET HzExtraColumns}

\* predicate="intersects" of a point and a polygon: inside or on the boundary.
point_intersects(pt, poly) == poly.lo <= pt.x /\ pt.x <= poly.hi

\* Coordinates of a geometry multiplied / divided by a factor.
scale_up(g, f) ==
    IF g.kind = "polygon" THEN [g EXCEPT !.lo = f * @, !.hi = f * @]
    ELSE [g EXCEPT !.x = f * @]

scale_down(g, f) ==
    IF g.kind = "polygon" THEN [g EXCEPT !.lo = @ \div f, !.hi = @ \div f]
    ELSE [g EXCEPT !.x = @ \div f]

\* to_crs that transforms the coordinates whatever the CRS of the layer.
hz_to_crs_always(layer, from, to) ==
    [i \in 1..Len(layer) |->
        [layer[i] EXCEPT !.cols.geometry =
            IF to = nyc_projected_crs THEN scale_up(@, 5280) ELSE scale_down(@, 5280)]]

\* layer.to_crs(to) of a layer in CRS `from`: the geometries come back as
\* they are when the two are equal.
hz_to_crs(layer, from, to) ==
    IF from = to THEN layer
    ELSE [i \in 1..Len(layer) |->
            [layer[i] EXCEPT !.cols.geometry =
                IF to = nyc_projected_crs THEN scale_up(@, 5280) ELSE scale_down(@, 5280)]]

\* to_crs raises ValueError on a layer without CRS and for a missing target.
to_crs_raises(from, to) == from = "None" \/ to = "None"

\* The record of one to_crs call.
to_crs_call(site, name, layer, from, to) ==
    [site |-> site, layer |-> name, from |-> from, to |-> to,
     changed |-> ~to_crs_raises(from, to) /\ hz_to_crs(layer, from, to) # layer]

\* gpd.read_file: the layer with its coordinates in its CRS.
hz_read_file(layer, crs) ==
    IF crs = nyc_projected_crs THEN hz_to_crs(layer, "EPSG:4326", crs) ELSE layer

\* Section 3, for the layers in script order.
align_order == <<"hurricane", "heat", "evac", "cool">>

align_needed(crs, k) == crs[align_order[k]] # crs["schools"]

align_raises(crs, k) ==
    align_needed(crs, k) /\ to_crs_raises(crs[align_order[k]], crs["schools"])

\* Position of the first to_crs of Section 3 that raises, 5 if none does.
align_stop(crs) ==
    IF \E k \in 1..4 : align_raises(crs, k)
    THEN CHOOSE k \in 1..4 : align_raises(crs, k) /\ \A j \in 1..(k - 1) : ~align_raises(crs, j)
    ELSE 5

align_layer(layer, crs, k) ==
    IF align_needed(crs, k) /\ k < align_stop(crs)
    THEN hz_to_crs(layer, crs[align_order[k]], crs["schools"]) ELSE layer

align_crs(crs) ==
    [l \in HzLayerNames |->
        IF \E k \in 1..4 : align_order[k] = l /\ align_needed(crs, k) /\ k < align_stop(crs)
        THEN crs["schools"] ELSE crs[l]]

align_calls(layers, crs) ==
    LET ks == SelectSeq(<<1, 2, 3, 4>>,
                        LAMBDA k : align_needed(crs, k) /\ k <= align_stop(crs))
    IN  [n \in 1..Len(ks) |->
            to_crs_call("section3", align_order[ks[n]], layers[ks[n]],
                        crs[align_order[ks[n]]], crs["schools"])]

\* Name pandas gives a column that both frames of a join carry.
suffixed(c, sfx) ==
    IF c = hurricane_field_name THEN (IF sfx = "sch" THEN "hurricane__sch" ELSE "hurricane__hz")
    ELSE (IF sfx = "sch" THEN "OHEI_Class_sch" ELSE "OHEI_Class_hi")

\* Name of the index column a join adds: "index_" + rsuffix.
index_column(rsuffix) == IF rsuffix = "hz" THEN "index_hz" ELSE "index_hi"

\* Columns of the left frame in the join result: a column named like the
\* kept field of the right frame gets lsuffix.
left_columns(cols, field) ==
    [c \in {IF d = field THEN suffixed(d, "sch") ELSE d : d \in DOMAIN cols} |->
        IF c = suffixed(field, "sch") THEN cols[field] ELSE cols[c]]

\* gpd.sjoin(left, right, how="left", predicate="intersects", lsuffix="sch",
\* rsuffix=...): one row per intersecting pair (the left index label
\* repeats), one NaN row for a left row without a match; adds the index
\* column and the kept field of the right.
hz_sjoin(left, right, field, rsuffix) ==
    Flatten([i \in 1..Len(left) |->
        LET hits == SelectSeq(right,
                        LAMBDA p : point_intersects(left[i].cols.geometry,
                                                    p.cols.geometry))
            clash == field \in DOMAIN left[i].cols
            name == IF clash THEN suffixed(field, rsuffix) ELSE field
            lcols == IF clash THEN left_columns(left[i].cols, field) ELSE left[i].cols
        IN  IF hits = <<>>
            THEN <<[idx |-> left[i].idx,
                    cols |-> lcols @@ (index_column(rsuffix) :> -1) @@ (name :> NaN)]>>
            ELSE [k \in 1..Len(hits) |->
                    [idx |-> left[i].idx,
                     cols |-> lcols @@ (index_column(rsuffix) :> hits[k].idx)
                                    @@ (name :> hits[k].cols[field])]]])

\* DataFrame.drop(columns=names).
drop_columns(df, names) ==
    [i \in 1..Len(df) |->
        [df[i] EXCEPT !.cols = [c \in (DOMAIN @) \ names |-> @[c]]]]

\* df[new] = df[old].
copy_column(df, new, old) ==
    [i \in 1..Len(df) |->
        [df[i] EXCEPT !.cols = (new :> @[old]) @@ @]]

\* Sections 4 and 5: join, drop index_right if present, copy the field to
\* its new name.
join_polygon_field(left, right, field, joined_field, rsuffix) ==
    LET j == hz_sjoin(left, right, field, rsuffix)
        d == IF \E i \in 1..Len(j) : "index_right" \in DOMAIN j[i].cols
             THEN drop_columns(j, {"index_right"}) ELSE j
    IN  copy_column(d, joined_field, field)

hz_distance(a, b) == Abs(a.x - b.x)

\* gpd.sjoin_nearest(left, right, how="left", distance_col="distance_ft"):
\* one row per (left row, nearest right feature) pair; every right feature at
\* the minimum distance is a nearest one, so equidistant features give
\* several rows for one left row.
sjoin_nearest(left, right) ==
    Flatten([i \in 1..Len(left) |->
        LET d(k) == hz_distance(left[i].cols.geometry, right[k].cols.geometry)
            near == SelectIdx(right,
                       LAMBDA c : \A k \in 1..Len(right) :
                           hz_distance(left[i].cols.geometry, c.cols.geometry) <= d(k), 1)
        IN  [n \in 1..Len(near) |->
                [idx |-> left[i].idx,
                 cols |-> left[i].cols @@ ("index_right" :> right[near[n]].idx)
                                       @@ ("distance_ft" :> d(near[n]))]]])

\* DataFrame.sort_index(): rows by index label, rows of one label in order.
RECURSIVE hz_sort_index(_)
hz_sort_index(df) ==
    IF df = <<>> THEN <<>>
    ELSE LET r == df[Len(df)]
             s == hz_sort_index(SubSeq(df, 1, Len(df) - 1))
             before == SelectSeq(s, LAMBDA q : q.idx <= r.idx)
             after == SelectSeq(s, LAMBDA q : q.idx > r.idx)
         IN  before \o <<r>> \o after

IndexOf(df) == [i \in 1..Len(df) |-> df[i].idx]

HasDuplicates(labels) ==
    \E i, j \in 1..Len(labels) : i # j /\ labels[i] = labels[j]

\* df[col] = series: pandas aligns the series on the index of the frame.
\* Identical indexes: the values go in by position.  Otherwise the series is
\* reindexed, which raises ValueError when its index has duplicate labels.
setitem_raises(df, series) ==
    IndexOf(series) # IndexOf(df) /\ HasDuplicates(IndexOf(series))

setitem(df, col, series, value(_)) ==
    [i \in 1..Len(df) |->
        [df[i] EXCEPT !.cols =
            (col :> (IF IndexOf(series) = IndexOf(df)
                     THEN value(series[i])
                     ELSE LET m == SelectSeq(series, LAMBDA q : q.idx = df[i].idx)
                          IN  IF m = <<>> THEN -1 ELSE value(m[1]))) @@ @]]

\* distance_ft / 5280.0
feet_to_miles(r) == r.cols["distance_ft"] \div 5280

\* col.startswith("index_"), over the column names that occur in the model.
startswith_index(c) ==
    c \in {"index_right", "index_left", "index_sch", "index_hz", "index_hi", "index_no"}

\* Section 8: the columns to drop.
cols_to_drop(df) ==
    UNION {{c \in DOMAIN df[i].cols :
                \/ startswith_index(c)
                \/ c \in {hurricane_field_name, heat_index_field_name}} :
           i \in 1..Len(df)}

---------------------------------------------------------------------------
\* Sections of the hurricane script, in order.

\* Section 2: read the five layers.
HzReadInputs ==
    /\ hz_pc = "read"
    /\ \E in \in HzInputs :
          /\ hz_schools_in' = hz_read_file(in.schools, in.crs["schools"])
          /\ hz_schools_gdf' = hz_schools_in'
          /\ hurricane_gdf' = hz_read_file(in.hurricane, in.crs["hurricane"])
          /\ heat_index_gdf' = hz_read_file(in.heat, in.crs["heat"])
          /\ evac_centers_gdf' = hz_read_file(in.evac, in.crs["evac"])
          /\ cooling_centers_gdf' = hz_read_file(in.cool, in.crs["cool"])
          /\ hz_crs' = in.crs
    /\ hz_pc' = "align"
    /\ UNCHANGED <<schools_proj, schools_nearest_evac, schools_nearest_cool,
                   hz_exported, hz_to_crs_calls>>
    /\ UNCHANGED <<swVars, gdbVars, extVars>>

\* Section 3: bring the four other layers to the CRS of the schools.
HzAlignCrs ==
    /\ hz_pc = "align"
    /\ LET layers == <<hurricane_gdf, heat_index_gdf, evac_centers_gdf, cooling_centers_gdf>>
       IN  /\ hurricane_gdf' = align_layer(hurricane_gdf, hz_crs, 1)
           /\ heat_index_gdf' = align_layer(heat_index_gdf, hz_crs, 2)
           /\ evac_centers_gdf' = align_layer(evac_centers_gdf, hz_crs, 3)
           /\ cooling_centers_gdf' = align_layer(cooling_centers_gdf, hz_crs, 4)
           /\ hz_to_crs_calls' = hz_to_crs_calls \o align_calls(layers, hz_crs)
    /\ hz_crs' = align_crs(hz_crs)
    /\ hz_pc' = IF align_stop(hz_crs) <= 4 THEN "raised" ELSE "join_hurricane"
    /\ UNCHANGED <<hz_schools_in, hz_schools_gdf, schools_proj, schools_nearest_evac,
                   schools_nearest_cool, hz_exported>>
    /\ UNCHANGED <<swVars, gdbVars, extVars>>

\* Section 4: spatial join with the evacuation zones.
HzJoinHurricane ==
    /\ hz_pc = "join_hurricane"
    /\ LET j == hz_sjoin(hz_schools_gdf, hurricane_gdf, hurricane_field_name, "hz")
       IN  IF \E i \in 1..Len(j) : hurricane_field_name \notin DOMAIN j[i].cols
           THEN hz_pc' = "raised" /\ UNCHANGED hz_schools_gdf
           ELSE /\ hz_schools_gdf' =
                      join_polygon_field(hz_schools_gdf, hurricane_gdf,
                                         hurricane_field_name, joined_hurricane_field, "hz")
                /\ hz_pc' = "join_heat"
    /\ UNCHANGED <<hz_schools_in, hurricane_gdf, heat_index_gdf, evac_centers_gdf,
                   cooling_centers_gdf, schools_proj, schools_nearest_evac,
                   schools_nearest_cool, hz_exported, hz_crs, hz_to_crs_calls>>
    /\ UNCHANGED <<swVars, gdbVars, extVars>>

\* Section 5: spatial join with the heat index polygons.
HzJoinHeat ==
    /\ hz_pc = "join_heat"
    /\ LET j == hz_sjoin(hz_schools_gdf, heat_index_gdf, heat_index_field_name, "hi")
       IN  IF \E i \in 1..Len(j) : heat_index_field_name \notin DOMAIN j[i].cols
           THEN hz_pc' = "raised" /\ UNCHANGED hz_schools_gdf
           ELSE /\ hz_schools_gdf' =
                      join_polygon_field(hz_schools_gdf, heat_index_gdf,
                                         heat_index_field_name, joined_heat_index_field, "hi")
                /\ hz_pc' = "nearest_evac"
    /\ UNCHANGED <<hz_schools_in, hurricane_gdf, heat_index_gdf, evac_centers_gdf,
                   cooling_centers_gdf, schools_proj, schools_nearest_evac,
                   schools_nearest_cool, hz_exported, hz_crs, hz_to_crs_calls>>
    /\ UNCHANGED <<swVars, gdbVars, extVars>>

\* Section 6: nearest evacuation centre, distance assigned back in miles.
\* Both layers go through to_crs(nyc_projected_crs), whatever their CRS.
HzNearestEvac ==
    /\ hz_pc = "nearest_evac"
    /\ LET s == hz_crs["schools"]
           e == hz_crs["evac"]
           call_s == to_crs_call("section6", "schools", hz_schools_gdf, s, nyc_projected_crs)
           call_e == to_crs_call("section6", "evac", evac_centers_gdf, e, nyc_projected_crs)
       IN  IF to_crs_raises(s, nyc_projected_crs)
           THEN /\ hz_to_crs_calls' = Append(hz_to_crs_calls, call_s)
                /\ hz_pc' = "raised"
                /\ UNCHANGED <<schools_proj, schools_nearest_evac, hz_schools_gdf>>
           ELSE /\ schools_proj' = hz_to_crs(hz_schools_gdf, s, nyc_projected_crs)
                /\ hz_to_crs_calls' = hz_to_crs_calls \o <<call_s, call_e>>
                /\ IF to_crs_raises(e, nyc_projected_crs)
                   THEN /\ hz_pc' = "raised"
                        /\ UNCHANGED <<schools_nearest_evac, hz_schools_gdf>>
                   ELSE /\ schools_nearest_evac' =
                              hz_sort_index(sjoin_nearest(schools_proj',
                                  hz_to_crs(evac_centers_gdf, e, nyc_projected_crs)))
                        /\ IF setitem_raises(hz_sort_index(hz_schools_gdf),
                                             schools_nearest_evac')
                           THEN /\ hz_schools_gdf' = hz_sort_index(hz_schools_gdf)
                                /\ hz_pc' = "raised"
                           ELSE /\ hz_schools_gdf' =
                                      setitem(hz_sort_index(hz_schools_gdf),
                                              distance_field_evac,
                                              schools_nearest_evac', feet_to_miles)
                                /\ hz_pc' = "nearest_cool"
    /\ UNCHANGED <<hz_schools_in, hurricane_gdf, heat_index_gdf, evac_centers_gdf,
                   cooling_centers_gdf, schools_nearest_cool, hz_exported, hz_crs>>
    /\ UNCHANGED <<swVars, gdbVars, extVars>>

\* Section 7: nearest cooling centre, distance assigned back in miles.
HzNearestCool ==
    /\ hz_pc = "nearest_cool"
    /\ LET c == hz_crs["cool"]
       IN  /\ hz_to_crs_calls' =
                 Append(hz_to_crs_calls,
                        to_crs_call("section7", "cool", cooling_centers_gdf, c,
                                    nyc_projected_crs))
           /\ IF to_crs_raises(c, nyc_projected_crs)
              THEN /\ hz_pc' = "raised"
                   /\ UNCHANGED <<schools_nearest_cool, hz_schools_gdf>>
              ELSE /\ schools_nearest_cool' =
                         hz_sort_index(sjoin_nearest(schools_proj,
                             hz_to_crs(cooling_centers_gdf, c, nyc_projected_crs)))
                   /\ IF setitem_raises(hz_schools_gdf, schools_nearest_cool')
                      THEN hz_pc' = "raised" /\ UNCHANGED hz_schools_gdf
                      ELSE /\ hz_schools_gdf' =
                                 setitem(hz_schools_gdf, distance_field_cooling,
                                         schools_nearest_cool', feet_to_miles)
                           /\ hz_pc' = "drop_fields"
    /\ UNCHANGED <<hz_schools_in, hurricane_gdf, heat_index_gdf, evac_centers_gdf,
                   cooling_centers_gdf, schools_proj, schools_nearest_evac,
                   hz_exported, hz_crs>>
    /\ UNCHANGED <<swVars, gdbVars, extVars>>

\* Section 8: drop the join helper fields.
HzDropFields ==
    /\ hz_pc = "drop_fields"
    /\ hz_schools_gdf' =
          (IF cols_to_drop(hz_schools_gdf) # {}
           THEN drop_columns(hz_schools_gdf, cols_to_drop(hz_schools_gdf))
           ELSE hz_schools_gdf)
    /\ hz_pc' = "export"
    /\ UNCHANGED <<hz_schools_in, hurricane_gdf, heat_index_gdf, evac_centers_gdf,
                   cooling_centers_gdf, schools_proj, schools_nearest_evac,
                   schools_nearest_cool, hz_exported, hz_crs, hz_to_crs_calls>>
    /\ UNCHANGED <<swVars, gdbVars, extVars>>

\* Section 9: write the GeoPackage layer.
HzExport ==
    /\ hz_pc = "export"
    /\ hz_exported' = hz_schools_gdf
    /\ hz_pc' = "exported"
    /\ UNCHANGED <<hz_schools_in, hz_schools_gdf, hurricane_gdf, heat_index_gdf,
                   evac_centers_gdf, cooling_centers_gdf, schools_proj,
                   schools_nearest_evac, schools_nearest_cool, hz_crs, hz_to_crs_calls>>
    /\ UNCHANGED <<swVars, gdbVars, extVars>>

\* The stormwater script does not run.
StormIdle ==
    /\ sw_pc = "idle"
    /\ schools_gdf = <<>>
    /\ buffers_gdf = <<>>
    /\ storm_keep = <<>>
    /\ joined = <<>>
    /\ best = <<>>
    /\ out_points = <<>>

HzInit ==
    /\ StormIdle
    /\ GdbIdle
    /\ ExtIdle
    /\ hz_pc = "read"
    /\ hz_schools_in = <<>>
    /\ hz_schools_gdf = <<>>
    /\ hurricane_gdf = <<>>
    /\ heat_index_gdf = <<>>
    /\ evac_centers_gdf = <<>>
    /\ cooling_centers_gdf = <<>>
    /\ schools_proj = <<>>
    /\ schools_nearest_evac = <<>>
    /\ schools_nearest_cool = <<>>
    /\ hz_exported = <<>>
    /\ hz_crs = <<>>
    /\ hz_to_crs_calls = <<>>

HzNext ==
    \/ HzReadInputs
    \/ HzAlignCrs
    \/ HzJoinHurricane
    \/ HzJoinHeat
    \/ HzNearestEvac
    \/ HzNearestCool
    \/ HzDropFields
    \/ HzExport

SpecHurricane == HzInit /\ [][HzNext]_vars
(***************************************************************************)
(* process_air_pollution_and_join.py: write_output_gdb                     *)
(*                                                                         *)
(* A column name is a sequence of characters.  The table gdf is            *)
(* [columns, dtypes, rows]: dtypes[i] is the dtype kind of column i, a row *)
(* is [cells, geometry] with cells[i] the value in column i.  The last     *)
(* column is the geometry column.                                          *)
(***************************************************************************)
FieldNameLimit == 64

UpperChars == <<"A", "B", "C", "D", "E", "F", "G", "H", "I", "J", "K", "L", "M", "N", "O", "P", "Q", "R", "S", "T", "U", "V", "W", "X", "Y", "Z">>
LowerChars == <<"a", "b", "c", "d", "e", "f", "g", "h", "i", "j", "k", "l", "m", "n", "o", "p", "q", "r", "s", "t", "u", "v", "w", "x", "y", "z">>
DigitChars == <<"0", "1", "2", "3", "4", "5", "6", "7", "8", "9">>

\* str.lower() on one character and on a name.
lower_char(c) ==
    IF \E i \in 1..Len(UpperChars) : UpperChars[i] = c
    THEN LowerChars[CHOOSE i \in 1..Len(UpperChars) : UpperChars[i] = c]
    ELSE c

lower(name) == [i \in 1..Len(name) |-> lower_char(name[i])]

\* str(i) for i >= 0, in decimal.
RECURSIVE str_int(_)
str_int(i) ==
    IF i < 10 THEN <<DigitChars[i + 1]>>
    ELSE str_int(i \div 10) \o <<DigitChars[(i % 10) + 1]>>

\* name[:n]
prefix(name, n) == SubSeq(name, 1, IF n < Len(name) THEN n ELSE Len(name))

Max(a, b) == IF a >= b THEN a ELSE b

Rep(c, n) == [i \in 1..n |-> c]

geometry_name == <<"g", "e", "o", "m", "e", "t", "r", "y">>
name_fid == <<"f", "i", "d">>
name_objectid == <<"o", "b", "j", "e", "c", "t", "i", "d">>
name_src_fid == <<"s", "r", "c", "_", "f", "i", "d">>
name_src_objectid == <<"s", "r", "c", "_", "o", "b", "j", "e", "c", "t", "i", "d">>

\* DataFrame.rename(columns={old: new}): every column labelled old.
rename_column(columns, old, new) ==
    [i \in 1..Len(columns) |-> IF columns[i] = old THEN new ELSE columns[i]]

\* {c.lower(): c for c in columns}[key]: the last column wins.
lower_to_orig(columns, key) ==
    LET hits == SelectSeq(columns, LAMBDA c : lower(c) = key)
    IN  hits[Len(hits)]

has_lower(columns, key) == \E i \in 1..Len(columns) : lower(columns[i]) = key

\* Lines 207-221: rename 'fid' and 'objectid' (any case) to src_fid and
\* src_objectid.  The lower-case map is built once, before both renames.
rename_reserved(columns) ==
    LET c1 == IF has_lower(columns, name_fid)
              THEN rename_column(columns, lower_to_orig(columns, name_fid), name_src_fid)
              ELSE columns
    IN  IF has_lower(columns, name_objectid)
        THEN rename_column(c1, lower_to_orig(columns, name_objectid), name_src_objectid)
        ELSE c1

\* A loop that tries one suffix and takes it.
dedupe_one_suffix(base, new, i, seen) ==
    IF lower(new) \in seen
    THEN LET suf == <<"_">> \o str_int(i)
         IN  [name |-> prefix(base, Max(0, FieldNameLimit - Len(suf))) \o suf, iters |-> 1]
    ELSE [name |-> new, iters |-> 0]

\* The while loop of lines 231-235: try base, base_1, base_2, ... until the
\* lower-cased name is not in seen.  iters counts the loop iterations.
RECURSIVE dedupe(_, _, _, _)
dedupe(base, new, i, seen) ==
    IF lower(new) \in seen
    THEN LET suf == <<"_">> \o str_int(i)
             r == dedupe(base, prefix(base, Max(0, FieldNameLimit - Len(suf))) \o suf,
                         i + 1, seen)
         IN  [name |-> r.name, iters |-> r.iters + 1]
    ELSE [name |-> new, iters |-> 0]

\* The for loop of lines 226-238 from column k on: the rename_map as a
\* sequence of <<col, new>> assignments (a later one replaces an earlier one).
RECURSIVE build_rename_map(_, _, _)
build_rename_map(columns, k, seen) ==
    IF k > Len(columns) THEN <<>>
    ELSE IF columns[k] = geometry_name THEN build_rename_map(columns, k + 1, seen)
    ELSE LET base == prefix(columns[k], FieldNameLimit)
             new == dedupe(base, base, 1, seen).name
         IN  (IF new # columns[k] THEN <<<<columns[k], new>>>> ELSE <<>>)
             \o build_rename_map(columns, k + 1, seen \cup {lower(new)})

\* DataFrame.rename(columns=rename_map).
apply_rename_map(columns, rename_map) ==
    [i \in 1..Len(columns) |->
        LET hits == SelectSeq(rename_map, LAMBDA e : e[1] = columns[i])
        IN  IF hits = <<>> THEN columns[i] ELSE hits[Len(hits)][2]]

\* Lines 223-242: truncate to 64 characters and de-duplicate.
truncate_dedupe(columns) ==
    LET rename_map == build_rename_map(columns, 1, {})
    IN  IF rename_map # <<>> THEN apply_rename_map(columns, rename_map) ELSE columns

\* Lines 244-251: the first candidate driver that GDAL has.
driver_names == <<"OpenFileGDB", "FileGDB">>

choose_driver(build) ==
    LET present == SelectSeq(driver_names, LAMBDA dn : build[dn] # "absent")
    IN  IF present = <<>> THEN "None" ELSE present[1]

\* Lines 297-305: the OGR field type of a column from its dtype kind.
ogr_type_of(kind) ==
    IF kind \in {"i", "u"} THEN "OFTInteger64"
    ELSE IF kind = "f" THEN "OFTReal"
    ELSE "OFTString"

\* Cell values.  na is None / NaN / pd.NA; obj is an object whose
\* conversion raises.
NaCell == [kind |-> "na", v |-> 0]
UnsetField == [kind |-> "unset", v |-> 0]

isna(val) == val.kind = "na"

\* int(val) / float(val) / str(val): whether the conversion raises.
cast_raises(ogr_type, val) ==
    IF ogr_type = "OFTInteger64" THEN val.kind \in {"str", "obj"}
    ELSE IF ogr_type = "OFTReal" THEN val.kind \in {"str", "obj"}
    ELSE val.kind = "obj"

\* The value of the conversion when it does not raise.
cast(ogr_type, val) ==
    IF ogr_type = "OFTInteger64" THEN [kind |-> "int", v |-> val.v]
    ELSE IF ogr_type = "OFTReal" THEN [kind |-> "float", v |-> val.v]
    ELSE [kind |-> "str", v |-> val.v]

RECURSIVE set_fields_stop_at_failure(_, _, _, _)
set_fields_stop_at_failure(columns, types, cells, k) ==
    IF k > Len(columns) THEN <<>>
    ELSE IF columns[k] = geometry_name
         THEN <<UnsetField>> \o set_fields_stop_at_failure(columns, types, cells, k + 1)
    ELSE IF isna(cells[k])
         THEN <<UnsetField>> \o set_fields_stop_at_failure(columns, types, cells, k + 1)
    ELSE IF cast_raises(types[k], cells[k])
         THEN [i \in 1..(Len(columns) - k + 1) |-> UnsetField]
    ELSE <<cast(types[k], cells[k])>>
         \o set_fields_stop_at_failure(columns, types, cells, k + 1)

\* Lines 318-350: the attribute fields of one feature, from column k on.  A
\* null cell and a cell whose conversion raises leave the field unset.
RECURSIVE set_fields(_, _, _, _)
set_fields(columns, types, cells, k) ==
    IF k > Len(columns) THEN <<>>
    ELSE (IF columns[k] = geometry_name THEN <<UnsetField>>
          ELSE IF isna(cells[k]) THEN <<UnsetField>>
          ELSE IF cast_raises(types[k], cells[k]) THEN <<UnsetField>>
          ELSE <<cast(types[k], cells[k])>>)
         \o set_fields(columns, types, cells, k + 1)

\* Lines 353-357: the geometry of one feature.
set_geometry(geom) ==
    IF notnull(geom) /\ ~is_empty(geom) THEN geom ELSE NullGeom

\* Inputs of write_output_gdb.
name_FID == <<"F", "I", "D">>
name_OBJECTID == <<"O", "B", "J", "E", "C", "T", "I", "D">>
name_name == <<"n", "a", "m", "e">>
name_long_x == Rep("a", 64) \o <<"x">>
name_long_y == Rep("a", 64) \o <<"y">>
name_LONG_x == Rep("A", 64) \o <<"x">>
name_64 == Rep("a", 64)
name_62_1 == Rep("a", 62) \o <<"_", "1">>

NamePool ==
    {name_fid, name_FID, name_objectid, name_OBJECTID, name_src_fid, name_name,
     name_long_x, name_long_y, name_LONG_x, name_64, name_62_1}

\* Lists of pairwise different column names (DataFrame columns read from a
\* layer), up to MaxCols attribute columns, followed by the geometry column.
ColumnLists ==
    {cs \o <<geometry_name>> :
        cs \in {c \in NonEmptySeqsUpTo(NamePool, MaxCols) :
                    \A i, j \in 1..Len(c) : i # j => c[i] # c[j]}}

TextCells == {NaCell, [kind |-> "str", v |-> 1], [kind |-> "int", v |-> 1],
              [kind |-> "obj", v |-> 1]}
IntCells == {[kind |-> "int", v |-> 1]}
RealCells == {NaCell, [kind |-> "float", v |-> 1]}
GeomCells == {NullGeom, EmptyGeom, Point(1)}

\* A table with a text, an integer and a real column.
TypedColumns == <<<<"t">>, <<"n">>, <<"r">>, geometry_name>>
TypedDtypes == <<"O", "i", "f", "O">>
TypedRows ==
    {<<t, n, r, g>> : t \in TextCells, n \in IntCells, r \in RealCells, g \in GeomCells}

TextTable(columns) ==
    [columns |-> columns,
     dtypes |-> [i \in 1..Len(columns) |-> "O"],
     rows |-> <<[i \in 1..Len(columns) |->
                    IF columns[i] = geometry_name THEN Point(1)
                    ELSE [kind |-> "str", v |-> 1]]>>]

TypedTable(rows) == [columns |-> TypedColumns, dtypes |-> TypedDtypes, rows |-> rows]

\* The GDAL build and the file system: each candidate driver is absent,
\* present but unable to create a datasource (read-only), or writable.
DriverStates == {"absent", "readonly", "writable"}
GdalBuilds ==
    [OpenFileGDB : DriverStates, FileGDB : DriverStates,
     delete_ok : BOOLEAN, layer_ok : BOOLEAN]
GoodBuild ==
    [OpenFileGDB |-> "writable", FileGDB |-> "absent",
     delete_ok |-> TRUE, layer_ok |-> TRUE]

---------------------------------------------------------------------------
\* write_output_gdb, step by step.

\* Lines 207-221.
GdbRenameReserved ==
    /\ gdb_pc = "rename_reserved"
    /\ gdf_out_columns' = rename_reserved(gdf.columns)
    /\ gdb_pc' = "truncate"
    /\ UNCHANGED <<gdf, gdal, gdb_disk, gdb_existed, ogr_driver, field_type_map, lyr_features,
                   gdb_error>>
    /\ UNCHANGED <<swVars, hzVars, extVars>>

\* Lines 223-242.
GdbTruncateDedupe ==
    /\ gdb_pc = "truncate"
    /\ gdf_out_columns' = truncate_dedupe(gdf_out_columns)
    /\ gdb_pc' = "driver"
    /\ UNCHANGED <<gdf, gdal, gdb_disk, gdb_existed, ogr_driver, field_type_map, lyr_features,
                   gdb_error>>
    /\ UNCHANGED <<swVars, hzVars, extVars>>

\* Lines 244-258.
GdbChooseDriver ==
    /\ gdb_pc = "driver"
    /\ ogr_driver' = choose_driver(gdal)
    /\ IF ogr_driver' = "None"
       THEN gdb_pc' = "raised" /\ gdb_error' = "RuntimeError: no driver"
       ELSE gdb_pc' = "create" /\ UNCHANGED gdb_error
    /\ UNCHANGED <<gdf, gdal, gdb_disk, gdb_existed, gdf_out_columns, field_type_map, lyr_features>>
    /\ UNCHANGED <<swVars, hzVars, extVars>>

\* A call that leaves what is at the path where it is.
delete_skipped(disk, build) == disk

\* Lines 260-262: ogr_driver.DeleteDataSource(out_gdb_path) when the path
\* exists; the result of the call is not looked at.
delete_existing(disk, build) ==
    IF disk # "none" /\ build.delete_ok THEN "none" ELSE disk

\* Lines 260-270: delete what is at the path, create the datasource.
GdbCreateDataSource ==
    /\ gdb_pc = "create"
    /\ LET after_delete == delete_existing(gdb_disk, gdal)
           created == gdal[ogr_driver] = "writable" /\ after_delete = "none"
       IN  /\ gdb_existed' = (gdb_disk # "none")
           /\ IF created
              THEN gdb_disk' = "new" /\ gdb_pc' = "layer" /\ UNCHANGED gdb_error
              ELSE /\ gdb_disk' = after_delete
                   /\ gdb_pc' = "raised"
                   /\ gdb_error' = "RuntimeError: create failed"
    /\ UNCHANGED <<gdf, gdal, gdf_out_columns, ogr_driver, field_type_map, lyr_features>>
    /\ UNCHANGED <<swVars, hzVars, extVars>>

\* Lines 272-285.
GdbCreateLayer ==
    /\ gdb_pc = "layer"
    /\ IF gdal.layer_ok
       THEN gdb_pc' = "fields" /\ UNCHANGED gdb_error
       ELSE gdb_pc' = "raised" /\ gdb_error' = "RuntimeError: layer failed"
    /\ UNCHANGED <<gdf, gdal, gdb_disk, gdb_existed, gdf_out_columns, ogr_driver, field_type_map,
                   lyr_features>>
    /\ UNCHANGED <<swVars, hzVars, extVars>>

\* Lines 288-309.  gdf_out[col] of a label that two columns carry is a
\* DataFrame, which has no dtype: AttributeError.
GdbCreateFields ==
    /\ gdb_pc = "fields"
    /\ IF HasDuplicates(gdf_out_columns)
       THEN /\ gdb_pc' = "raised"
            /\ gdb_error' = "AttributeError"
            /\ UNCHANGED field_type_map
       ELSE /\ field_type_map' =
                  [i \in 1..Len(gdf_out_columns) |-> ogr_type_of(gdf.dtypes[i])]
            /\ gdb_pc' = "rows"
            /\ UNCHANGED gdb_error
    /\ UNCHANGED <<gdf, gdal, gdb_disk, gdb_existed, gdf_out_columns, ogr_driver, lyr_features>>
    /\ UNCHANGED <<swVars, hzVars, extVars>>

\* Lines 314-360: one iteration of the row loop.
GdbWriteFeature ==
    /\ gdb_pc = "rows"
    /\ Len(lyr_features) < Len(gdf.rows)
    /\ LET row == gdf.rows[Len(lyr_features) + 1]
           g == CHOOSE i \in 1..Len(gdf_out_columns) : gdf_out_columns[i] = geometry_name
       IN  lyr_features' = Append(lyr_features,
               [fields |-> set_fields(gdf_out_columns, field_type_map, row, 1),
                geometry |-> set_geometry(row[g])])
    /\ UNCHANGED <<gdb_pc, gdf, gdal, gdb_disk, gdb_existed, gdf_out_columns, ogr_driver,
                   field_type_map, gdb_error>>
    /\ UNCHANGED <<swVars, hzVars, extVars>>

\* Lines 362-365.
GdbClose ==
    /\ gdb_pc = "rows"
    /\ Len(lyr_features) = Len(gdf.rows)
    /\ gdb_pc' = "done"
    /\ UNCHANGED <<gdf, gdal, gdb_disk, gdb_existed, gdf_out_columns, ogr_driver, field_type_map,
                   lyr_features, gdb_error>>
    /\ UNCHANGED <<swVars, hzVars, extVars>>

\* The calls of write_output_gdb that are explored: tables with many column
\* names on a good GDAL build, one table on every GDAL build, and typed
\* tables with every mix of cell values on a good GDAL build.
GdbInit ==
    /\ StormIdle
    /\ HzIdle
    /\ ExtIdle
    /\ gdb_pc = "rename_reserved"
    /\ \/ /\ gdf \in {TextTable(cs) : cs \in ColumnLists}
          /\ gdal = GoodBuild
          /\ gdb_disk = "none"
       \/ /\ gdf = TypedTable(<<>>)
          /\ gdal \in GdalBuilds
          /\ gdb_disk \in {"none", "old"}
       \/ /\ gdf \in {TypedTable(rows) : rows \in SeqsUpTo(TypedRows, MaxRows)}
          /\ gdal = GoodBuild
          /\ gdb_disk \in {"none", "old"}
    /\ gdf_out_columns = <<>>
    /\ ogr_driver = "None"
    /\ field_type_map = <<>>
    /\ lyr_features = <<>>
    /\ gdb_existed = FALSE
    /\ gdb_error = "none"

GdbNext ==
    \/ GdbRenameReserved
    \/ GdbTruncateDedupe
    \/ GdbChooseDriver
    \/ GdbCreateDataSource
    \/ GdbCreateLayer
    \/ GdbCreateFields
    \/ GdbWriteFeature
    \/ GdbClose

SpecGdb == GdbInit /\ [][GdbNext]_vars
(***************************************************************************)
(* andre_working/snap_points_by_BuildingCode.py                            *)
(*                                                                         *)
(* A row of the layer is [name, code, geometry, lat, lng]: `name` stands   *)
(* for the attributes the script never reads, `code` is Bldg_Code.  A code *)
(* is missing (None) or a text, kept as its sequence of characters.  lat   *)
(* and lng hold cells [kind, v]: a float, a text that reads as a number, a *)
(* text that does not, or a missing value.                                 *)
(***************************************************************************)
group_field == "Bldg_Code"
lat_field == "lat"
lng_field == "lng"

NullCode == [na |-> TRUE, s |-> <<>>]
Code(s) == [na |-> FALSE, s |-> s]

SnapNullGeom == [kind |-> "null", x |-> 0, y |-> 0]
SnapEmptyGeom == [kind |-> "empty", x |-> 0, y |-> 0]
SnapPolygon == [kind |-> "polygon", x |-> 0, y |-> 0]
PointXY(x, y) == [kind |-> "point", x |-> x, y |-> y]

FloatCell(v) == [kind |-> "float", v |-> v]
NumTextCell(v) == [kind |-> "numtext", v |-> v]
TextCell == [kind |-> "text", v |-> 0]

\* is_valid_point(geom): not None, not empty, of type Point.
is_valid_point(geom) ==
    IF geom.kind = "null" THEN FALSE
    ELSE IF geom.kind = "empty" THEN FALSE
    ELSE IF geom.kind # "point" THEN FALSE
    ELSE TRUE

\* str.strip(): leading and trailing white space removed.
RECURSIVE lstrip(_)
lstrip(s) == IF s # <<>> /\ Head(s) = " " THEN lstrip(Tail(s)) ELSE s

RECURSIVE rstrip(_)
rstrip(s) ==
    IF s # <<>> /\ s[Len(s)] = " " THEN rstrip(SubSeq(s, 1, Len(s) - 1)) ELSE s

strip(s) == rstrip(lstrip(s))

\* gdf[group_field].astype("string").str.strip(): a missing code stays missing.
normalize_code(c) == IF c.na THEN c ELSE Code(strip(c.s))

\* codes written back to the group field.
normalize_codes(rows) ==
    [i \in 1..Len(rows) |-> [rows[i] EXCEPT !.code = normalize_code(@)]]

\* gdf.groupby(group_field).groups: the row labels of every code that is not
\* missing, in row order.
groups(rows) ==
    [c \in {rows[i].code : i \in {j \in 1..Len(rows) : ~rows[j].code.na}} |->
        SelectIdx(rows, LAMBDA r : r.code = c, 1)]

\* The last valid point of a group instead of the first.
RECURSIVE last_valid(_, _, _)
last_valid(rows, idxs, k) ==
    IF k > Len(idxs) THEN 0
    ELSE LET later == last_valid(rows, idxs, k + 1)
         IN  IF later # 0 THEN later
             ELSE IF is_valid_point(rows[idxs[k]].geometry) THEN idxs[k]
             ELSE 0

\* The first valid point of a group, 0 when the group has none.
RECURSIVE first_valid(_, _, _)
first_valid(rows, idxs, k) ==
    IF k > Len(idxs) THEN 0
    ELSE IF is_valid_point(rows[idxs[k]].geometry) THEN idxs[k]
    ELSE first_valid(rows, idxs, k + 1)

\* Targets that do not skip the blank code.
build_targets_keeps_blank(rows) ==
    LET g == groups(rows)
        keys == {c \in DOMAIN g : first_valid(rows, g[c], 1) # 0}
    IN  [c \in keys |->
            LET geom == rows[first_valid(rows, g[c], 1)].geometry
            IN  <<geom.x, geom.y>>]

\* targets: code -> (x, y) of the first valid point of the group; blank codes
\* and groups without a valid point get no entry.
build_targets(rows) ==
    LET g == groups(rows)
        keys == {c \in DOMAIN g : c.s # <<>> /\ first_valid(rows, g[c], 1) # 0}
    IN  [c \in keys |->
            LET geom == rows[first_valid(rows, g[c], 1)].geometry
            IN  <<geom.x, geom.y>>]

\* mask = gdf[group_field].isin(list(targets.keys())).
isin(rows, targets) == [i \in 1..Len(rows) |-> rows[i].code \in DOMAIN targets]

\* The three assignments with x and y of the target the wrong way round.
apply_snap_swapped(rows, targets, mask) ==
    [i \in 1..Len(rows) |->
        IF mask[i]
        THEN [rows[i] EXCEPT
                !.geometry = PointXY(targets[rows[i].code][2], targets[rows[i].code][1]),
                !.lng = FloatCell(targets[rows[i].code][2]),
                !.lat = FloatCell(targets[rows[i].code][1])]
        ELSE rows[i]]

\* The three gdf.loc[mask, ...] assignments.
apply_snap(rows, targets, mask) ==
    [i \in 1..Len(rows) |->
        IF mask[i]
        THEN [rows[i] EXCEPT
                !.geometry = PointXY(targets[rows[i].code][1], targets[rows[i].code][2]),
                !.lng = FloatCell(targets[rows[i].code][1]),
                !.lat = FloatCell(targets[rows[i].code][2])]
        ELSE rows[i]]

\* pd.to_numeric(column, errors="coerce") on one cell.
to_numeric_coerce(cell) ==
    IF cell.kind \in {"float", "numtext"} THEN FloatCell(cell.v) ELSE NaCell

coerce_lat_lng(rows) ==
    [i \in 1..Len(rows) |->
        [rows[i] EXCEPT !.lat = to_numeric_coerce(@), !.lng = to_numeric_coerce(@)]]

\* ---- Input layers.
SnapColumns == {"name", group_field, lat_field, lng_field, "geometry"}

\* A row whose lat/lng agree with its geometry.
SnapRow(c, g) ==
    [code |-> c, geometry |-> g,
     lat |-> IF g.kind = "point" THEN FloatCell(g.y) ELSE NaCell,
     lng |-> IF g.kind = "point" THEN FloatCell(g.x) ELSE NaCell]

\* Two codes with geometries of every kind.
SnapGroupRows ==
    {SnapRow(c, g) :
        c \in {Code(<<"A">>), Code(<<"B">>)},
        g \in {SnapNullGeom, SnapEmptyGeom, SnapPolygon, PointXY(1, 2), PointXY(3, 4)}}

\* Codes of every kind, missing and blank ones included.
SnapCodeRows ==
    {SnapRow(c, g) :
        c \in {NullCode, Code(<<>>), Code(<<"A">>), Code(<<"B">>)},
        g \in {SnapNullGeom, PointXY(1, 2)}}

\* Codes with white space around them.
SnapSpaceRows ==
    {SnapRow(c, g) :
        c \in {Code(<<" ">>), Code(<<" ", "A">>), Code(<<"A", " ">>), Code(<<"A">>)},
        g \in {SnapNullGeom, PointXY(1, 2)}}

\* lat/lng cells of every kind.
SnapCellRows ==
    [code : {Code(<<"A">>)},
     geometry : {SnapNullGeom, PointXY(1, 2)},
     lat : {FloatCell(5), NumTextCell(5), TextCell, NaCell},
     lng : {FloatCell(6), TextCell}]

SnapRowLists ==
    SeqsUpTo(SnapGroupRows, MaxSnapRows) \cup SeqsUpTo(SnapCodeRows, MaxSnapRows) \cup
    SeqsUpTo(SnapSpaceRows, MaxCellRows) \cup SeqsUpTo(SnapCellRows, MaxCellRows)

\* The row label goes in as `name`.
with_names(rows) ==
    [i \in 1..Len(rows) |->
        [name |-> i, code |-> rows[i].code, geometry |-> rows[i].geometry,
         lat |-> rows[i].lat, lng |-> rows[i].lng]]

\* A layer with all its columns, or an empty one with a required column
\* missing.
SnapFiles(lists) ==
    {[columns |-> SnapColumns, rows |-> with_names(rows)] : rows \in lists}
    \cup
    {[columns |-> cs, rows |-> <<>>] :
        cs \in {SnapColumns \ {c} : c \in {group_field, lat_field, lng_field}}}

---------------------------------------------------------------------------
\* Sections of the snapping script, in order.

\* gpd.read_file and the required field check.
SnapRead ==
    /\ snap_pc = "read"
    /\ \E file \in SnapFiles(SnapRowLists) :
          /\ snap_in' = file
          /\ snap_gdf' = file.rows
          /\ snap_pc' = IF \E req \in {group_field, lat_field, lng_field} :
                               req \notin file.columns
                        THEN "raised" ELSE "normalize"
    /\ UNCHANGED <<snap_targets, snap_mask, snap_out>>
    /\ UNCHANGED notSnap

\* Normalize the building codes.
SnapNormalize ==
    /\ snap_pc = "normalize"
    /\ snap_gdf' = normalize_codes(snap_gdf)
    /\ snap_pc' = "targets"
    /\ UNCHANGED <<snap_in, snap_targets, snap_mask, snap_out>>
    /\ UNCHANGED notSnap

\* Build the target coordinate per code and the mask of rows to snap.
SnapBuildTargets ==
    /\ snap_pc = "targets"
    /\ snap_targets' = build_targets(snap_gdf)
    /\ snap_mask' = isin(snap_gdf, snap_targets')
    /\ snap_pc' = "apply"
    /\ UNCHANGED <<snap_in, snap_gdf, snap_out>>
    /\ UNCHANGED notSnap

\* Update geometry, lng and lat of the masked rows.
SnapApply ==
    /\ snap_pc = "apply"
    /\ snap_gdf' = apply_snap(snap_gdf, snap_targets, snap_mask)
    /\ snap_pc' = "coerce"
    /\ UNCHANGED <<snap_in, snap_targets, snap_mask, snap_out>>
    /\ UNCHANGED notSnap

\* Coerce lat/lng to numeric.
SnapCoerce ==
    /\ snap_pc = "coerce"
    /\ snap_gdf' = coerce_lat_lng(snap_gdf)
    /\ snap_pc' = "write"
    /\ UNCHANGED <<snap_in, snap_targets, snap_mask, snap_out>>
    /\ UNCHANGED notSnap

\* gdf.to_file(out_path, driver="GeoJSON").
SnapWrite ==
    /\ snap_pc = "write"
    /\ snap_out' = snap_gdf
    /\ snap_pc' = "done"
    /\ UNCHANGED <<snap_in, snap_gdf, snap_targets, snap_mask>>
    /\ UNCHANGED notSnap

SnapInit ==
    /\ StormIdle
    /\ HzIdle
    /\ GdbIdle
    /\ AirIdle
    /\ DashIdle
    /\ snap_pc = "read"
    /\ snap_in = <<>>
    /\ snap_gdf = <<>>
    /\ snap_targets = <<>>
    /\ snap_mask = <<>>
    /\ snap_out = <<>>

SnapNext ==
    \/ SnapRead
    \/ SnapNormalize
    \/ SnapBuildTargets
    \/ SnapApply
    \/ SnapCoerce
    \/ SnapWrite

SpecSnap == SnapInit /\ [][SnapNext]_vars

(***************************************************************************)
(* andre_working/process_air_pollution_and_join.py: the main block         *)
(*                                                                         *)
(* A raster is one row of pixels: pixel i covers [i, i + 1) of the x axis  *)
(* of the raster CRS.  A band value is a number or NaN; a sampled value is *)
(* a number, NaN or None.  The school layer is [crs, has_geometry, rows],  *)
(* a row being the x of its point or a null geometry.  A layer of the      *)
(* input geodatabase is [name, kws]: kws are the keywords that occur in    *)
(* its lower-cased name.                                                   *)
(***************************************************************************)
target_grids == <<"aa14_pm300m", "aa14_no2300m">>
keywords == <<"master", "school", "schools", "points">>

name_pm25_aa14 == <<"p", "m", "2", "5", "_", "a", "a", "1", "4">>
name_no2_aa14 == <<"n", "o", "2", "_", "a", "a", "1", "4">>

Num(v) == [kind |-> "float", v |-> v]
NanValue == [kind |-> "nan", v |-> 0]
NoneValue == [kind |-> "none", v |-> 0]

\* v == src.nodata on numpy scalars: NaN equals nothing.
np_eq(a, b) == a.kind = "float" /\ b.kind = "float" /\ a.v = b.v

\* choose_school_layer: the layers as fiona lists them; 0 stands for the
\* IndexError of layers[0] on an empty list.
RECURSIVE first_match(_, _, _)
first_match(layers, kw, k) ==
    IF k > Len(layers) THEN 0
    ELSE IF kw \in layers[k].kws THEN k
    ELSE first_match(layers, kw, k + 1)

\* A search in list order first: the first layer that carries any keyword.
RECURSIVE keyword_match_list_order(_, _)
keyword_match_list_order(layers, n) ==
    IF n > Len(layers) THEN 0
    ELSE IF \E m \in 1..Len(keywords) : keywords[m] \in layers[n].kws THEN n
    ELSE keyword_match_list_order(layers, n + 1)

RECURSIVE keyword_match(_, _)
keyword_match(layers, n) ==
    IF n > Len(keywords) THEN 0
    ELSE IF first_match(layers, keywords[n], 1) # 0
         THEN first_match(layers, keywords[n], 1)
    ELSE keyword_match(layers, n + 1)

choose_school_layer(layers) ==
    IF Len(layers) = 1 THEN 1
    ELSE IF keyword_match(layers, 1) # 0 THEN keyword_match(layers, 1)
    ELSE IF layers = <<>> THEN 0
    ELSE 1

\* points_gdf.to_crs(src.crs): one degree of EPSG:4326 is two units of the
\* raster CRS.
air_to_crs(rows, from, to) ==
    [i \in 1..Len(rows) |->
        IF from = to THEN rows[i]
        ELSE IF from = "EPSG:4326" THEN [rows[i] EXCEPT !.x = 2 * @]
        ELSE [rows[i] EXCEPT !.x = @ \div 2]]

\* src.sample at one coordinate: the band value of the pixel that holds the
\* point; outside the extent the fill value, which is the nodata value and 0
\* for a raster that declares none (or declares 0).
sample(raster, x) ==
    IF x < 0 \/ x >= raster.width
    THEN (IF raster.nodata.kind = "none" THEN Num(0)
          ELSE IF np_eq(raster.nodata, Num(0)) THEN Num(0)
          ELSE raster.nodata)
    ELSE raster.pixels[x]

\* Lines 183-191: nodata becomes None, anything else float(v).
nodata_to_none(raster, v) ==
    IF raster.nodata.kind # "none" /\ np_eq(v, raster.nodata) THEN NoneValue ELSE v

\* sample_raster_at_points, given rows whose geometry is a point.
sample_raster_at_points(raster, table) ==
    LET points_proj == IF table.crs # raster.crs
                       THEN air_to_crs(table.rows, table.crs, raster.crs)
                       ELSE table.rows
    IN  [i \in 1..Len(points_proj) |->
            nodata_to_none(raster, sample(raster, points_proj[i].x))]

\* schools_gdf[field_name] = sampled_vals, seen as write_output_gdb sees it:
\* None and NaN are missing values; the column is float64 unless it holds
\* nothing but None.
air_cell(v) == IF v.kind = "float" THEN [kind |-> "float", v |-> v.v] ELSE NaCell

air_dtype(vals) ==
    IF \E i \in 1..Len(vals) : vals[i].kind # "none" THEN "f" ELSE "O"

air_gdf(table, vals) ==
    [columns |-> <<name_name, name_pm25_aa14, name_no2_aa14, geometry_name>>,
     dtypes |-> <<"i", air_dtype(vals[1]), air_dtype(vals[2]), "O">>,
     rows |-> [i \in 1..Len(table.rows) |->
                  <<[kind |-> "int", v |-> i], air_cell(vals[1][i]),
                    air_cell(vals[2][i]), table.rows[i]>>]]

\* ---- The inputs of a run.
BandValues == {Num(0), Num(5), NanValue}
NodataValues == {NoneValue, Num(0), Num(5), NanValue}

Rasters ==
    UNION {[crs : {"EPSG:2263"}, nodata : NodataValues, width : {w},
            pixels : [0..(w - 1) -> BandValues]] : w \in 1..MaxWidth}

PlainRaster ==
    [crs |-> "EPSG:2263", nodata |-> Num(0), width |-> 1, pixels |-> [i \in {0} |-> Num(5)]]

AirPoints == {NullGeom} \cup {Point(x) : x \in (-1)..MaxWidth}

SchoolTables ==
    [crs : {"EPSG:2263", "EPSG:4326", "None"}, has_geometry : {TRUE},
     rows : SeqsUpTo(AirPoints, MaxAirPoints)]

PlainTable == [crs |-> "EPSG:2263", has_geometry |-> TRUE, rows |-> <<Point(0)>>]

LayerKws == {{}, {"master"}, {"school"}, {"school", "schools"}, {"points"}}

LayerLists ==
    {[k \in 1..Len(ks) |-> [name |-> k, kws |-> ks[k]]] : ks \in SeqsUpTo(LayerKws, MaxLayers)}

ReadOnlyBuild ==
    [OpenFileGDB |-> "readonly", FileGDB |-> "absent",
     delete_ok |-> TRUE, layer_ok |-> TRUE]

\* Runs with every kind of input error, runs with every list of layers,
\* runs that sample a one pixel raster at every table of points, and runs
\* that sample every raster at one point.
AirEnvs(tables, rasters, layerlists) ==
    {[found |-> f, opens |-> o, gdb_exists |-> e,
      layers |-> <<[name |-> 1, kws |-> {}]>>,
      table |-> [PlainTable EXCEPT !.has_geometry = hg],
      raster |-> [g \in {1, 2} |-> PlainRaster], build |-> b] :
        f \in SUBSET {1, 2}, o \in SUBSET {1, 2}, e \in BOOLEAN,
        hg \in BOOLEAN, b \in {GoodBuild, ReadOnlyBuild}}
    \cup
    {[found |-> {1, 2}, opens |-> {1, 2}, gdb_exists |-> TRUE, layers |-> ls,
      table |-> PlainTable,
      raster |-> [g \in {1, 2} |-> PlainRaster], build |-> GoodBuild] :
        ls \in layerlists}
    \cup
    {[found |-> {1, 2}, opens |-> {1, 2}, gdb_exists |-> TRUE,
      layers |-> <<[name |-> 1, kws |-> {}]>>, table |-> t,
      raster |-> [g \in {1, 2} |-> IF g = 1 THEN r ELSE PlainRaster],
      build |-> GoodBuild] :
        t \in tables, r \in {q \in rasters : q.width = 1}}
    \cup
    {[found |-> {1, 2}, opens |-> {1, 2}, gdb_exists |-> TRUE,
      layers |-> <<[name |-> 1, kws |-> {}]>>, table |-> t,
      raster |-> [g \in {1, 2} |-> IF g = 1 THEN r ELSE PlainRaster],
      build |-> GoodBuild] :
        t \in {q \in tables : Len(q.rows) = 1}, r \in rasters}

---------------------------------------------------------------------------
\* The main block, step by step.

\* Lines 379-393: look for the grid folders; every required grid is there.
AirFindGrids ==
    /\ air_pc = "find"
    /\ IF \E g \in 1..Len(target_grids) : g \notin air_env.found
       THEN air_pc' = "raised" /\ air_error' = "FileNotFoundError: grid folder"
       ELSE air_pc' = "convert" /\ UNCHANGED air_error
    /\ air_k' = 1
    /\ UNCHANGED <<air_env, air_tifs, air_layer, air_schools, air_vals>>
    /\ UNCHANGED <<notAir, gdbVars>>

\* Lines 397-416: one iteration of the conversion loop writes one GeoTIFF.
AirConvert ==
    /\ air_pc = "convert"
    /\ IF air_k \notin air_env.opens
       THEN /\ air_pc' = "raised"
            /\ air_error' = "RuntimeError: GDAL could not open"
            /\ UNCHANGED <<air_tifs, air_k>>
       ELSE /\ air_tifs' = air_tifs \cup {air_k}
            /\ IF air_k < Len(target_grids)
               THEN air_k' = air_k + 1 /\ UNCHANGED air_pc
               ELSE air_k' = 1 /\ air_pc' = "choose_layer"
            /\ UNCHANGED air_error
    /\ UNCHANGED <<air_env, air_layer, air_schools, air_vals>>
    /\ UNCHANGED <<notAir, gdbVars>>

\* Line 419: choose the layer of the input geodatabase.
AirChooseLayer ==
    /\ air_pc = "choose_layer"
    /\ IF ~air_env.gdb_exists
       THEN /\ air_pc' = "raised"
            /\ air_error' = "DriverError: no such geodatabase"
            /\ UNCHANGED air_layer
       ELSE IF choose_school_layer(air_env.layers) = 0
       THEN /\ air_pc' = "raised"
            /\ air_error' = "IndexError: no layer"
            /\ UNCHANGED air_layer
       ELSE /\ air_layer' = air_env.layers[choose_school_layer(air_env.layers)].name
            /\ air_pc' = "read"
            /\ UNCHANGED air_error
    /\ UNCHANGED <<air_env, air_k, air_tifs, air_schools, air_vals>>
    /\ UNCHANGED <<notAir, gdbVars>>

\* Lines 423-430: read the school points.
AirReadSchools ==
    /\ air_pc = "read"
    /\ IF ~air_env.table.has_geometry
       THEN /\ air_pc' = "raised"
            /\ air_error' = "RuntimeError: no geometry column"
            /\ UNCHANGED air_schools
       ELSE /\ air_schools' = air_env.table
            /\ air_pc' = "sample"
            /\ UNCHANGED air_error
    /\ UNCHANGED <<air_env, air_k, air_tifs, air_layer, air_vals>>
    /\ UNCHANGED <<notAir, gdbVars>>

\* Lines 433-452: one iteration of the sampling loop.  to_crs of a layer
\* without CRS raises ValueError; geom.x of a null geometry raises
\* AttributeError.
AirSample ==
    /\ air_pc = "sample"
    /\ LET raster == air_env.raster[air_k]
       IN  IF air_schools.crs = "None"
           THEN /\ air_pc' = "raised"
                /\ air_error' = "ValueError: layer has no CRS"
                /\ UNCHANGED <<air_vals, air_k>>
           ELSE IF \E i \in 1..Len(air_schools.rows) : air_schools.rows[i].kind = "null"
           THEN /\ air_pc' = "raised"
                /\ air_error' = "AttributeError: null geometry"
                /\ UNCHANGED <<air_vals, air_k>>
           ELSE /\ air_vals' = Append(air_vals, sample_raster_at_points(raster, air_schools))
                /\ IF air_k < Len(target_grids)
                   THEN air_k' = air_k + 1 /\ UNCHANGED air_pc
                   ELSE air_k' = 1 /\ air_pc' = "write"
                /\ UNCHANGED air_error
    /\ UNCHANGED <<air_env, air_tifs, air_layer, air_schools>>
    /\ UNCHANGED <<notAir, gdbVars>>

\* Lines 455-466: the call of write_output_gdb; its steps follow.
AirWriteGdb ==
    /\ air_pc = "write"
    /\ gdb_pc = "idle"
    /\ gdf' = air_gdf(air_schools, air_vals)
    /\ gdal' = air_env.build
    /\ gdb_disk' \in {"none", "old"}
    /\ gdb_pc' = "rename_reserved"
    /\ air_pc' = "writing"
    /\ UNCHANGED <<gdb_existed, gdf_out_columns, ogr_driver, field_type_map,
                   lyr_features, gdb_error>>
    /\ UNCHANGED <<air_env, air_k, air_tifs, air_layer, air_schools, air_vals, air_error>>
    /\ UNCHANGED notAir

\* Lines 468-483: write_output_gdb returned, or its exception ends the run.
AirFinish ==
    /\ air_pc = "writing"
    /\ gdb_pc \in {"done", "raised"}
    /\ IF gdb_pc = "done"
       THEN air_pc' = "done" /\ UNCHANGED air_error
       ELSE air_pc' = "raised" /\ air_error' = gdb_error
    /\ UNCHANGED <<air_env, air_k, air_tifs, air_layer, air_schools, air_vals>>
    /\ UNCHANGED <<notAir, gdbVars>>

AirInit ==
    /\ StormIdle
    /\ HzIdle
    /\ GdbIdle
    /\ SnapIdle
    /\ DashIdle
    /\ air_pc = "find"
    /\ air_env \in AirEnvs(SchoolTables, Rasters, LayerLists)
    /\ air_k = 1
    /\ air_tifs = {}
    /\ air_layer = 0
    /\ air_schools = <<>>
    /\ air_vals = <<>>
    /\ air_error = "none"

AirNext ==
    \/ AirFindGrids
    \/ AirConvert
    \/ AirChooseLayer
    \/ AirReadSchools
    \/ AirSample
    \/ AirWriteGdb
    \/ GdbRenameReserved
    \/ GdbTruncateDedupe
    \/ GdbChooseDriver
    \/ GdbCreateDataSource
    \/ GdbCreateLayer
    \/ GdbCreateFields
    \/ GdbWriteFeature
    \/ GdbClose
    \/ AirFinish

SpecAir == AirInit /\ [][AirNext]_vars

(***************************************************************************)
(* apps/streamlit_app.py                                                   *)
(*                                                                         *)
(* Streamlit runs main() from top to bottom on every interaction.  What    *)
(* lasts between two runs is st.session_state, the state of the widgets    *)
(* (the legend checkboxes, the sidebar checkbox) and the selection of the  *)
(* map.  An action is one interaction and the run of main() it triggers.   *)
(* A feature is a record of its attributes, `geometry` among them.         *)
(***************************************************************************)
MAP_LAYERS == <<"dac", "schools">>

\* dac_nyc_full.geojson and school_points_with_lcgms.geojson.
DacSources ==
    {[k \in 1..Len(ds) |-> [geoid |-> k, dac_designation |-> ds[k], geometry |-> k]] :
        ds \in SeqsUpTo(BOOLEAN, MaxFeatures)}

SchoolSources ==
    {[k \in 1..n |-> [school_name |-> k, geometry |-> k]] : n \in 0..MaxFeatures}

\* A DAC layer that ignores the sidebar box.
load_dac_data_unfiltered(source, show) == [id |-> "dac", data |-> source]

\* load_dac_data_pydeck(show_non_dac).
load_dac_data_pydeck(source, show) ==
    [id |-> "dac",
     data |-> IF ~show THEN SelectSeq(source, LAMBDA f : f.dac_designation) ELSE source]

\* load_school_locations_data_pydeck().
load_school_locations_data_pydeck(source) == <<[id |-> "schools", data |-> source]>>

\* st.checkbox(value=default, key=...): the default on the first render of
\* the widget, the state of the widget afterwards.
checkbox(widgets, key, default) ==
    IF key \in DOMAIN widgets THEN widgets[key] ELSE default

\* render_legend: `checkboxes = {}` is inside the loop over the layers, so
\* the dict that is returned holds the checkbox of the last layer only.
RECURSIVE render_legend(_, _, _, _)
render_legend(states, widgets, k, checkboxes) ==
    IF k > Len(MAP_LAYERS) THEN checkboxes
    ELSE LET layer_name == MAP_LAYERS[k]
             emptied == <<>>
             layer_checkbox == checkbox(widgets, layer_name, states[layer_name])
         IN  render_legend(states, widgets, k + 1,
                           (layer_name :> layer_checkbox) @@ emptied)

\* The legend widgets after a render: every checkbox is on the page.
legend_widgets(states, widgets) ==
    [l \in {MAP_LAYERS[k] : k \in 1..Len(MAP_LAYERS)} |-> checkbox(widgets, l, states[l])]

\* dict.update.
update(states, toggled) == toggled @@ states

\* Lines 223-230: the layers of the deck.
compose_layers(states, src, show) ==
    (IF states["dac"] THEN <<load_dac_data_pydeck(src.dac, show)>> ELSE <<>>)
    \o (IF states["schools"] THEN load_school_locations_data_pydeck(src.schools) ELSE <<>>)

\* The attributes shown with geometry left in.
row_with_geom(object) == object

\* Lines 250-252: the attributes of the object without its geometry.
row_no_geom(object) == [k \in (DOMAIN object) \ {"geometry"} |-> object[k]]

\* Lines 242-257: the inspection panel for the selection of the map.
inspect(selection) ==
    IF selection # <<>>
    THEN [kind |-> "dataframe", rows |-> row_no_geom(selection[1].objects[1])]
    ELSE [kind |-> "info", rows |-> <<>>]

\* map_data.selection["objects"] in selection_mode="single-object": nothing,
\* or one object of one layer of the deck.
SelectionsOf(layers) ==
    {<<>>} \cup
    UNION {{<<[layer |-> layers[k].id, objects |-> <<layers[k].data[i]>>]>> :
               i \in 1..Len(layers[k].data)} : k \in 1..Len(layers)}

---------------------------------------------------------------------------
\* One run of main(), given the widget states and the selection the browser
\* holds.  The map is a new element when its deck changed, and a new element
\* has no selection.
dash_run(widgets, show, selection) ==
    LET states0 == IF layer_states = <<>>
                   THEN [l \in {"dac", "schools"} |-> TRUE] ELSE layer_states
        toggled == render_legend(states0, widgets, 1, <<>>)
        states1 == update(states0, toggled)
        layers == compose_layers(states1, dash_src, show)
        kept == IF layers = pydeck_layers THEN selection ELSE <<>>
    IN  /\ layer_states' = states1
        /\ legend' = legend_widgets(states0, widgets)
        /\ show_non_dac' = show
        /\ pydeck_layers' = layers
        /\ map_selection' = kept
        /\ panel' = inspect(kept)
        /\ dash_pc' = "live"
        /\ UNCHANGED dash_src

\* The first render of a session: no session state, no widget state.
DashFirstRun ==
    /\ dash_pc = "new"
    /\ dash_run(<<>>, FALSE, <<>>)
    /\ UNCHANGED notDash

\* The user changes a legend checkbox.
DashToggleLegend ==
    /\ dash_pc = "live"
    /\ \E l \in {"dac", "schools"} :
          dash_run([legend EXCEPT ![l] = ~@], show_non_dac, map_selection)
    /\ UNCHANGED notDash

\* The user changes the sidebar checkbox.
DashToggleFilter ==
    /\ dash_pc = "live"
    /\ dash_run(legend, ~show_non_dac, map_selection)
    /\ UNCHANGED notDash

\* The user clicks an object of the map, or clicks beside every object.
DashSelect ==
    /\ dash_pc = "live"
    /\ \E s \in SelectionsOf(pydeck_layers) : dash_run(legend, show_non_dac, s)
    /\ UNCHANGED notDash

DashInit ==
    /\ StormIdle
    /\ HzIdle
    /\ GdbIdle
    /\ SnapIdle
    /\ AirIdle
    /\ dash_pc = "new"
    /\ dash_src \in [dac : DacSources, schools : SchoolSources]
    /\ layer_states = <<>>
    /\ legend = <<>>
    /\ show_non_dac = FALSE
    /\ pydeck_layers = <<>>
    /\ map_selection = <<>>
    /\ panel = <<>>

DashNext ==
    \/ DashFirstRun
    \/ DashToggleLegend
    \/ DashToggleFilter
    \/ DashSelect

SpecDash == DashInit /\ [][DashNext]_vars

---------------------------------------------------------------------------
\* Properties of the stormwater script.

StormMerged == sw_pc \in {"write", "done"}
StormPicked == sw_pc \in {"merge", "write", "done"}

\* The join candidates of a point, in the order the join produced them.
Candidates(pt) == SelectSeq(joined, LAMBDA c : c.pt_id = pt /\ c.index_right # -1)

\* The candidates that carry a risk number.
NumericCandidates(pt) ==
    SelectSeq(Candidates(pt), LAMBDA c : to_numeric(c.risk).kind = "int")

RiskOf(c) == to_numeric(c.risk).v

IsMinRisk(c, pt) ==
    \A k \in 1..Len(NumericCandidates(pt)) : RiskOf(c) <= RiskOf(NumericCandidates(pt)[k])

\* No polygon of the stormwater layer within 300 ft of school row i.
NoOverlap(i) ==
    \A k \in 1..Len(storm_keep) :
        ~intersects(buffer(to_crs(schools_gdf[i].geometry), buffer_distance_ft),
                    storm_keep[k].geometry)

OutRowsOf(i) == SelectSeq(out_points, LAMBDA r : r.name = schools_gdf[i].name)

\* C1: after the merge the point collection has exactly one row per school
\* point that passed the null/empty filter, in the same order: the row count
\* equals the count before the join and no point is missing or repeated.
C1_OneRowPerPoint ==
    StormMerged =>
        /\ Len(out_points) = Len(schools_gdf)
        /\ Len(buffers_gdf) = Len(schools_gdf)
        /\ \A i \in 1..Len(schools_gdf) : Len(OutRowsOf(i)) = 1

\* C1 witness: a finished run with two points, one with several candidates
\* and one with none.
C1_Witness ==
    /\ sw_pc = "done"
    /\ Len(schools_gdf) = 2
    /\ \E i \in 1..Len(schools_gdf) : Len(Candidates(schools_gdf[i].pt_id)) >= 2
    /\ \E i \in 1..Len(schools_gdf) : Len(Candidates(schools_gdf[i].pt_id)) = 0

\* C2: for a point with two or more candidates (one of them with a risk
\* number), the resolved risk is the minimum risk of its candidates and the
\* resolved scenario and category are the values of one candidate with that
\* risk.
C2_MinRiskAtomicRecord ==
    StormMerged =>
        \A i \in 1..Len(schools_gdf) :
            LET pt == schools_gdf[i].pt_id
                cs == NumericCandidates(pt)
            IN  (Len(Candidates(pt)) >= 2 /\ Len(cs) >= 1) =>
                    \A n \in 1..Len(OutRowsOf(i)) :
                        \E k \in 1..Len(cs) :
                            /\ IsMinRisk(cs[k], pt)
                            /\ OutRowsOf(i)[n].risk = RiskOf(cs[k])
                            /\ OutRowsOf(i)[n].scen = cs[k].scen
                            /\ OutRowsOf(i)[n].cat = cs[k].cat

\* C3: a point whose buffer intersects no stormwater polygon gets exactly the
\* default record: risk 0 and the default text in both text fields.
C3_DefaultRecord ==
    StormMerged =>
        \A i \in 1..Len(schools_gdf) :
            NoOverlap(i) =>
                /\ Len(OutRowsOf(i)) = 1
                /\ OutRowsOf(i)[1].risk = 0
                /\ OutRowsOf(i)[1].scen = "No forecasted risk of stormwater flooding"
                /\ OutRowsOf(i)[1].cat = "No forecasted risk of stormwater flooding"

\* C3 witness: a finished run where a point has no polygon in reach although
\* the stormwater layer is not empty.
C3_Witness ==
    /\ sw_pc = "done"
    /\ Len(storm_keep) >= 1
    /\ \E i \in 1..Len(schools_gdf) : NoOverlap(i)

BestRowsOf(pt) == SelectSeq(best, LAMBDA b : b.pt_id = pt)

MinRiskCandidates(pt) ==
    SelectSeq(NumericCandidates(pt), LAMBDA c : IsMinRisk(c, pt))

SameRecord(b, c) == b.risk = RiskOf(c) /\ b.scen = c.scen /\ b.cat = c.cat

\* C4 as stated: among the candidates that tie on the minimum risk, the one
\* chosen is the one with the lowest reference id, whatever the join order.
C4_LowestReferenceId ==
    StormPicked =>
        \A pt \in {joined[k].pt_id : k \in 1..Len(joined)} :
            LET ms == MinRiskCandidates(pt)
            IN  Len(ms) >= 2 =>
                    \E k \in 1..Len(ms) :
                        /\ \A j \in 1..Len(ms) : ms[k].index_right <= ms[j].index_right
                        /\ Len(BestRowsOf(pt)) = 1
                        /\ SameRecord(BestRowsOf(pt)[1], ms[k])

\* C4 amended: among the candidates that tie on the minimum risk, the one
\* chosen is the first one in the order in which the join produced them.
C4_FirstInJoinOrder ==
    StormPicked =>
        \A pt \in {joined[k].pt_id : k \in 1..Len(joined)} :
            LET ms == MinRiskCandidates(pt)
            IN  Len(ms) >= 1 =>
                    /\ Len(BestRowsOf(pt)) = 1
                    /\ SameRecord(BestRowsOf(pt)[1], ms[1])

\* C4 witness: two candidates tie on the minimum risk, differ in their text,
\* and the join produced the higher reference id first.
C4_Witness ==
    /\ StormPicked
    /\ \E pt \in {joined[k].pt_id : k \in 1..Len(joined)} :
          LET ms == MinRiskCandidates(pt)
          IN  /\ Len(ms) >= 2
              /\ ms[1].index_right > ms[2].index_right
              /\ ms[1].scen # ms[2].scen

---------------------------------------------------------------------------
\* Properties of the hurricane / heat index script.

HzRowsOf(df, name) == SelectSeq(df, LAMBDA r : r.cols.name = name)

\* C5: the exported school layer has exactly the rows of the input school
\* layer, one row per input school, also when a school intersects more than
\* one zone polygon or more than one heat index polygon.
C5_ExportKeepsCardinality ==
    hz_pc = "exported" =>
        /\ Len(hz_exported) = Len(hz_schools_in)
        /\ \A i \in 1..Len(hz_schools_in) :
              Len(HzRowsOf(hz_exported, hz_schools_in[i].cols.name)) = 1

\* C6: each nearest join yields exactly one candidate (one distance) per
\* school row, also when two centres are equidistant, so that the distance
\* column is assigned back with one value per school row.
C6_OneNearestPerSchool ==
    /\ schools_nearest_evac # <<>> => Len(schools_nearest_evac) = Len(schools_proj)
    /\ schools_nearest_cool # <<>> => Len(schools_nearest_cool) = Len(schools_proj)

---------------------------------------------------------------------------
\* Properties of write_output_gdb.

GdbSanitized == gdb_pc \in {"driver", "create", "layer", "fields", "rows", "done", "raised"}

\* C7: after the field name sanitation every non-geometry output field name
\* has at most 64 characters and the output field names are pairwise
\* distinct, compared case-insensitively.
C7_NamesShortAndDistinct ==
    GdbSanitized =>
        /\ \A i \in 1..Len(gdf_out_columns) :
              gdf_out_columns[i] # geometry_name => Len(gdf_out_columns[i]) <= 64
        /\ \A i, j \in 1..Len(gdf_out_columns) :
              i # j => lower(gdf_out_columns[i]) # lower(gdf_out_columns[j])

\* C8: after the reserved-name step no output field name equals 'fid' or
\* 'objectid' in any letter case, and the renamed field does not collide with
\* another output field.
C8_ReservedNamesRenamed ==
    (gdb_pc = "truncate" \/ GdbSanitized) =>
        /\ \A i \in 1..Len(gdf_out_columns) :
              lower(gdf_out_columns[i]) \notin {name_fid, name_objectid}
        /\ \A i, j \in 1..Len(gdf_out_columns) :
              i # j => gdf_out_columns[i] # gdf_out_columns[j]

\* C9: a cell that cannot be cast to the type of its field is written as a
\* null field and does not raise: feature k holds, for row k, every field
\* whose cell is not null and casts, and leaves the others unset; the row loop
\* raises nothing and a finished call has written one feature per row.
C9_FailedCastIsNullField ==
    /\ \A k \in 1..Len(lyr_features) :
          \A c \in 1..Len(gdf.columns) :
              gdf.columns[c] # geometry_name =>
                  LET val == gdf.rows[k][c]
                      field == lyr_features[k].fields[c]
                      ogr_type == ogr_type_of(gdf.dtypes[c])
                  IN  IF val.kind = "na" \/ cast_raises(ogr_type, val)
                      THEN field.kind = "unset"
                      ELSE field.kind # "unset" /\ field.v = val.v
    /\ Len(lyr_features) > 0 => gdb_pc \in {"rows", "done"} /\ gdb_error = "none"
    /\ gdb_pc = "done" => Len(lyr_features) = Len(gdf.rows)

\* C9 witness: a finished call wrote a row whose text cell cannot be cast and
\* whose integer and real cells, later in the row, were written.
C9_Witness ==
    /\ gdb_pc = "done"
    /\ \E k \in 1..Len(lyr_features) :
          /\ gdf.rows[k][1].kind = "obj"
          /\ lyr_features[k].fields[1].kind = "unset"
          /\ lyr_features[k].fields[2].kind = "int"
          /\ lyr_features[k].fields[3].kind = "float"

\* C10: the call raises only when no candidate driver is present and able to
\* create the datasource, or when the output cannot be created (the old
\* output cannot be deleted, the layer cannot be created).
C10_RaisesOnlyWithoutCapableDriver ==
    gdb_pc = "raised" =>
        \/ \A k \in 1..Len(driver_names) : gdal[driver_names[k]] # "writable"
        \/ (gdb_disk = "old" /\ ~gdal.delete_ok)
        \/ ~gdal.layer_ok

---------------------------------------------------------------------------
\* Properties of the snapping script.  Codes are compared as the script
\* compares them, after the white space around them is removed.

SnapDone == snap_pc = "done"

NormCode(i) == normalize_code(snap_in.rows[i].code)

\* Rows of the input that carry the same code as row i and a valid point.
ValidOfGroup(i) ==
    {j \in 1..Len(snap_in.rows) :
        NormCode(j) = NormCode(i) /\ is_valid_point(snap_in.rows[j].geometry)}

\* Row i has a non-blank code whose group holds a valid point.
Snappable(i) ==
    /\ ~NormCode(i).na
    /\ NormCode(i).s # <<>>
    /\ ValidOfGroup(i) # {}

FirstValidOfGroup(i) == CHOOSE j \in ValidOfGroup(i) : \A k \in ValidOfGroup(i) : j <= k

\* C11: after the snapping transform the row count is unchanged, and every
\* row whose non-blank code has a group with a valid point carries the
\* geometry of the first valid point of its group in row order, with lng/lat
\* equal to the x/y of that point (so all rows of the group agree).
C11_GroupSnappedToFirstValid ==
    SnapDone =>
        /\ Len(snap_out) = Len(snap_in.rows)
        /\ \A i \in 1..Len(snap_out) :
              Snappable(i) =>
                LET p == snap_in.rows[FirstValidOfGroup(i)].geometry
                IN  /\ snap_out[i].geometry = PointXY(p.x, p.y)
                    /\ snap_out[i].lng = FloatCell(p.x)
                    /\ snap_out[i].lat = FloatCell(p.y)

\* Three rows, two of one code: a null geometry first, then a valid point;
\* the third row of another code stands elsewhere.
C11_Witness ==
    /\ SnapDone
    /\ Len(snap_out) = 3
    /\ \E i, j, k \in 1..3 :
          /\ i < j
          /\ Snappable(i) /\ NormCode(i) = NormCode(j) /\ NormCode(k) # NormCode(i)
          /\ snap_in.rows[i].geometry.kind = "null"
          /\ is_valid_point(snap_in.rows[j].geometry)
          /\ is_valid_point(snap_in.rows[k].geometry)
          /\ snap_in.rows[k].geometry # snap_in.rows[j].geometry
          /\ snap_out[i].geometry = snap_in.rows[j].geometry
          /\ snap_out[k].geometry = snap_in.rows[k].geometry

\* C12: every attribute other than geometry, lat and lng (Bldg_Code
\* included) is written as it was read, and the lat/lng of rows that are
\* not snapped keep their input values.
C12_OtherAttributesUnchanged ==
    SnapDone =>
        \A i \in 1..Len(snap_out) :
            /\ snap_out[i].name = snap_in.rows[i].name
            /\ snap_out[i].code = snap_in.rows[i].code
            /\ ~snap_mask[i] =>
                  /\ snap_out[i].lat = snap_in.rows[i].lat
                  /\ snap_out[i].lng = snap_in.rows[i].lng

\* C13: a row whose code is blank or missing, or whose group holds no valid
\* point, keeps its input geometry and is not in the snap mask.
C13_UnsnappableRowsKeepGeometry ==
    SnapDone =>
        \A i \in 1..Len(snap_out) :
            ~Snappable(i) =>
                /\ snap_out[i].geometry = snap_in.rows[i].geometry
                /\ ~snap_mask[i]

\* A blank-coded valid point, a missing-coded valid point and a coded row
\* whose group has no valid point, all left where they were.
C13_Witness ==
    /\ SnapDone
    /\ \E i, j, k \in 1..Len(snap_out) :
          /\ NormCode(i) = Code(<<>>) /\ is_valid_point(snap_in.rows[i].geometry)
          /\ NormCode(j).na /\ is_valid_point(snap_in.rows[j].geometry)
          /\ ~NormCode(k).na /\ NormCode(k).s # <<>> /\ ~Snappable(k)
          /\ \A n \in {i, j, k} :
                ~snap_mask[n] /\ snap_out[n].geometry = snap_in.rows[n].geometry

---------------------------------------------------------------------------
\* Properties of the air pollution script.

\* The x of point i of the sampled layer in the CRS of the raster.
RasterX(raster, i) == air_to_crs(air_schools.rows, air_schools.crs, raster.crs)[i].x

OutsideExtent(raster, x) == x < 0 \/ x >= raster.width

\* C14: sample_raster_at_points returns one value per point, in order: None
\* when the point is outside the raster extent (whether or not the raster
\* declares a nodata value) or when the pixel holds the declared nodata
\* value, and the band value otherwise.
C14_OneValuePerPointNoneWhenMissing ==
    \A k \in 1..Len(air_vals) :
        LET raster == air_env.raster[k]
        IN  /\ Len(air_vals[k]) = Len(air_schools.rows)
            /\ \A i \in 1..Len(air_vals[k]) :
                  LET x == RasterX(raster, i)
                  IN  air_vals[k][i] =
                        IF OutsideExtent(raster, x) THEN NoneValue
                        ELSE IF raster.nodata.kind # "none" /\ raster.pixels[x] = raster.nodata
                             THEN NoneValue
                        ELSE raster.pixels[x]

\* The exceptions that an input of the run causes.
AirInputErrors ==
    {"FileNotFoundError: grid folder", "RuntimeError: GDAL could not open",
     "DriverError: no such geodatabase", "IndexError: no layer",
     "RuntimeError: no geometry column", "ValueError: layer has no CRS",
     "AttributeError: null geometry"}

\* C18: an input error ends the run before any output is written: no run
\* writes an output file and then aborts on an input error.
C18_InputErrorBeforeAnyOutput ==
    (air_pc = "raised" /\ air_error \in AirInputErrors) =>
        (air_tifs = {} /\ gdb_disk # "new")

---------------------------------------------------------------------------
\* Properties of the dashboard.

DashLive == dash_pc = "live"

InDeck(l) == \E k \in 1..Len(pydeck_layers) : pydeck_layers[k].id = l

\* C15: after every run, for each layer the toggle state kept in the session
\* equals the value of the layer's legend checkbox, and the layer is in the
\* composed map exactly when that value is true.
C15_ToggleStatePerLayer ==
    DashLive =>
        \A l \in {"dac", "schools"} :
            /\ layer_states[l] = legend[l]
            /\ InDeck(l) <=> legend[l]

\* C16: the panel shows at most one feature: with an object selected, the
\* attributes of the first selected object without its geometry; with
\* nothing selected, no table but the prompt.
C16_PanelShowsFirstSelected ==
    DashLive =>
        IF map_selection # <<>>
        THEN LET object == map_selection[1].objects[1]
             IN  /\ panel.kind = "dataframe"
                 /\ DOMAIN panel.rows = (DOMAIN object) \ {"geometry"}
                 /\ \A k \in DOMAIN panel.rows : panel.rows[k] = object[k]
        ELSE panel = [kind |-> "info", rows |-> <<>>]

\* A polygon of the DAC layer is selected and shown; the schools layer is
\* hidden.
C16_Witness ==
    /\ DashLive
    /\ map_selection # <<>>
    /\ map_selection[1].layer = "dac"
    /\ ~InDeck("schools")
    /\ panel.kind = "dataframe"
    /\ "geoid" \in DOMAIN panel.rows

---------------------------------------------------------------------------
\* Properties of the CRS handling and of the exported columns of the
\* hurricane script, and of the default fill of the stormwater script.

EqualCrsCalls ==
    {k \in 1..Len(hz_to_crs_calls) : hz_to_crs_calls[k].from = hz_to_crs_calls[k].to}

IdxGeometry(df) == {<<df[i].idx, df[i].cols.geometry>> : i \in 1..Len(df)}

NewFields ==
    {joined_hurricane_field, joined_heat_index_field,
     distance_field_evac, distance_field_cooling}

\* C19: the columns of the exported layer are exactly the original school
\* columns (geometry included) plus hurricane_evacZone, OHEI,
\* evacCenters_distance_mi and cooling_centers_distance_mi: the cleanup
\* removes no original school column, whatever its name, and leaves no join
\* helper column.
C19_ExportedColumnsAreOriginalPlusFour ==
    hz_pc = "exported" =>
        \A i \in 1..Len(hz_exported) :
            DOMAIN hz_exported[i].cols = DOMAIN hz_schools_in[1].cols \cup NewFields

\* C20: in the stormwater output the default record and a matched record
\* never mix: Flood_Scenario, and likewise Flood_Category, is the default
\* text exactly when Stormwater_Flood_Risk is 0, also when the chosen polygon
\* has a null scenario or category text.
C20_DefaultTextIffZeroRisk ==
    StormMerged =>
        \A i \in 1..Len(out_points) :
            /\ out_points[i].scen = no_risk_label <=> out_points[i].risk = no_risk_value
            /\ out_points[i].cat = no_risk_label <=> out_points[i].risk = no_risk_value

---------------------------------------------------------------------------
\* Properties of the DAC filter and of the first render.

DacLayers == SelectSeq(pydeck_layers, LAMBDA l : l.id = "dac")

Designated == SelectSeq(dash_src.dac, LAMBDA f : f.dac_designation)

\* The DAC layer of the deck holds the whole source when the sidebar box is
\* checked, and the designated features of the source, each once and in
\* source order, when it is not.
DacLayerFollowsFilter ==
    \A k \in 1..Len(DacLayers) :
        /\ show_non_dac => DacLayers[k].data = dash_src.dac
        /\ ~show_non_dac =>
              /\ Len(DacLayers[k].data) = Len(Designated)
              /\ \A i \in 1..Len(Designated) :
                    /\ DacLayers[k].data[i].geoid = Designated[i].geoid
                    /\ DacLayers[k].data[i].dac_designation

\* The first render: the sidebar box unchecked, both layers visible.
FirstRender ==
    /\ ~show_non_dac
    /\ layer_states = [l \in {"dac", "schools"} |-> TRUE]
    /\ InDeck("dac") /\ InDeck("schools")

\* C21: the DAC layer built by load_dac_data_pydeck(show_non_dac) holds
\* every feature of the source when show_non_dac is true and exactly the
\* features with a true dac_designation when it is false; the sidebar filter
\* starts unchecked and both layers are visible on the first render of a
\* session.
C21_DacFilterAndFirstRender ==
    [][/\ dash_pc' = "live" => DacLayerFollowsFilter'
       /\ (dash_pc = "new" /\ dash_pc' = "live") => FirstRender']_vars

\* A run that shows the DAC layer with the box unchecked, for a source with
\* a designated and a not designated feature.
C21_Witness ==
    /\ DashLive
    /\ ~show_non_dac
    /\ Len(DacLayers) = 1
    /\ Len(Designated) >= 1
    /\ Len(Designated) < Len(dash_src.dac)
    /\ Len(DacLayers[1].data) = Len(Designated)

---------------------------------------------------------------------------
\* Properties of choose_school_layer.

LayerChosen == air_layer # 0

\* Positions in `keywords` of the keywords that some layer name contains.
MatchingKeywords ==
    {n \in 1..Len(keywords) :
        \E k \in 1..Len(air_env.layers) : keywords[n] \in air_env.layers[k].kws}

BestKeyword == CHOOSE n \in MatchingKeywords : \A m \in MatchingKeywords : n <= m

LayersWith(n) ==
    {k \in 1..Len(air_env.layers) : keywords[n] \in air_env.layers[k].kws}

\* C22: choose_school_layer returns a layer of the list for every non-empty
\* list: the only layer when there is one; otherwise the first layer in list
\* order whose lower-cased name contains the highest-priority keyword that
\* any layer name contains (master > school > schools > points, priority
\* before list order); the first layer when no keyword matches.
C22_ChosenLayerByKeywordPriority ==
    /\ (air_pc \notin {"idle", "find", "convert", "choose_layer", "raised"}) => LayerChosen
    /\ LayerChosen =>
          /\ air_layer \in 1..Len(air_env.layers)
          /\ Len(air_env.layers) = 1 => air_layer = 1
          /\ (Len(air_env.layers) > 1 /\ MatchingKeywords = {}) => air_layer = 1
          /\ (Len(air_env.layers) > 1 /\ MatchingKeywords # {}) =>
                /\ air_layer \in LayersWith(BestKeyword)
                /\ \A k \in LayersWith(BestKeyword) : air_layer <= k

\* Two layers: the first one carries a keyword of lower priority than the
\* second one, and the second one is chosen.
C22_Witness ==
    /\ LayerChosen
    /\ Len(air_env.layers) = 2
    /\ air_layer = 2
    /\ \E n \in MatchingKeywords : n > BestKeyword /\ 1 \in LayersWith(n)

---------------------------------------------------------------------------
\* Properties of the ranking of the stormwater script.

\* C23: candidates whose risk is null or not numeric take no part in the
\* ranking: a point that has candidates but none with a numeric risk gets
\* the default record (risk 0 and the default text), and a point with a
\* numeric candidate gets the minimum risk over its numeric candidates.
C23_NonNumericRiskExcluded ==
    StormMerged =>
        \A i \in 1..Len(schools_gdf) :
            LET pt == schools_gdf[i].pt_id
                cs == Candidates(pt)
                ns == NumericCandidates(pt)
            IN  /\ (Len(cs) >= 1 /\ Len(ns) = 0) =>
                      /\ Len(OutRowsOf(i)) = 1
                      /\ OutRowsOf(i)[1].risk = no_risk_value
                      /\ OutRowsOf(i)[1].scen = no_risk_label
                      /\ OutRowsOf(i)[1].cat = no_risk_label
                /\ Len(ns) >= 1 =>
                      /\ Len(OutRowsOf(i)) = 1
                      /\ \E k \in 1..Len(ns) :
                            /\ IsMinRisk(ns[k], pt)
                            /\ OutRowsOf(i)[1].risk = RiskOf(ns[k])

\* A finished run with a point whose two candidates have a null risk and a
\* risk that is text.
C23_Witness ==
    /\ sw_pc = "done"
    /\ \E i \in 1..Len(schools_gdf) :
          LET cs == Candidates(schools_gdf[i].pt_id)
          IN  /\ Len(cs) = 2
              /\ \E k \in 1..2 : cs[k].risk.kind = "null"
              /\ \E k \in 1..2 : cs[k].risk.kind = "text"
              /\ OutRowsOf(i)[1].risk = no_risk_value

---------------------------------------------------------------------------
\* Properties of the replacement of a previous output by write_output_gdb.

CreationFailed ==
    /\ gdb_pc = "raised"
    /\ gdb_error \in {"RuntimeError: create failed", "RuntimeError: layer failed"}

OnlyThisCall ==
    gdb_pc = "done" => (gdb_disk = "new" /\ Len(lyr_features) = Len(gdf.rows))

\* C24 as stated: a datasource that exists at out_gdb_path is deleted before
\* the new one is created, so a successful call leaves only the features of
\* this call; when the creation of the datasource or of the layer fails, the
\* call raises RuntimeError with the previous output removed and no feature
\* written.
C24_PreviousOutputRemoved ==
    /\ OnlyThisCall
    /\ CreationFailed => (gdb_disk # "old" /\ lyr_features = <<>>)

\* C24, amended: a successful call leaves only the features of this call.
\* When the creation of the datasource or of the layer fails the call raises
\* RuntimeError with no feature written; the previous output is removed
\* then, except when DeleteDataSource could not delete it: in that case the
\* creation fails and the previous output is still in place.
C24_PreviousOutputRemovedIfDeletable ==
    /\ OnlyThisCall
    /\ CreationFailed =>
          /\ lyr_features = <<>>
          /\ gdb_disk = "old" <=> (gdb_existed /\ ~gdal.delete_ok)

\* A successful call that replaced a previous output and wrote a feature.
C24_Witness ==
    /\ gdb_pc = "done"
    /\ gdb_existed
    /\ gdb_disk = "new"
    /\ Len(lyr_features) >= 1

---------------------------------------------------------------------------
\* The de-duplication loop, column by column.

\* Lines 224-238: for every attribute column from column k on, the 'seen'
\* set the while loop starts from, the name it stops at and the number of
\* iterations it took.
RECURSIVE dedupe_trace(_, _, _)
dedupe_trace(columns, k, seen) ==
    IF k > Len(columns) THEN <<>>
    ELSE IF columns[k] = geometry_name THEN dedupe_trace(columns, k + 1, seen)
    ELSE LET base == prefix(columns[k], FieldNameLimit)
             r == dedupe(base, base, 1, seen)
         IN  <<[seen |-> seen, name |-> r.name, iters |-> r.iters]>>
             \o dedupe_trace(columns, k + 1, seen \cup {lower(r.name)})

\* The columns the loop of lines 224-238 runs over.
DedupeRuns == dedupe_trace(rename_reserved(gdf.columns), 1, {})

\* C25: the de-duplication loop terminates: when it has run, for each
\* column the suffix counter has stopped at a name that is not in the 'seen'
\* set, after at most (number of previously seen names + 1) iterations.
C25_DedupeLoopBounded ==
    gdb_pc = "driver" =>
        LET runs == DedupeRuns
        IN  \A k \in 1..Len(runs) :
                /\ lower(runs[k].name) \notin runs[k].seen
                /\ runs[k].iters <= Cardinality(runs[k].seen) + 1

\* A run in which one column needed two suffixes, the first of them taken.
C25_Witness ==
    /\ gdb_pc = "driver"
    /\ LET runs == DedupeRuns
       IN  \E k \in 1..Len(runs) :
              /\ runs[k].iters >= 2
              /\ Cardinality(runs[k].seen) = 2

---------------------------------------------------------------------------
\* The snapping transform as one function of the rows.

\* Lines 67-111 on a table: codes, targets, mask, the three assignments and
\* the two to_numeric calls.
snap_transform(rows) ==
    LET coded == normalize_codes(rows)
        targets == build_targets(coded)
    IN  coerce_lat_lng(apply_snap(coded, targets, isin(coded, targets)))

\* The targets of a run on the rows: the snapped groups and where they go.
snap_groups(rows) == build_targets(normalize_codes(rows))

\* C26: the snapping transform is idempotent: run on its own output it
\* gives the same geometry, lat, lng and Bldg_Code for every row as the
\* first run, and the same set of snapped groups.
C26_SnapIdempotent ==
    SnapDone =>
        LET again == snap_transform(snap_out)
        IN  /\ Len(again) = Len(snap_out)
            /\ \A i \in 1..Len(snap_out) :
                  /\ again[i].geometry = snap_out[i].geometry
                  /\ again[i].lat = snap_out[i].lat
                  /\ again[i].lng = snap_out[i].lng
                  /\ again[i].code = snap_out[i].code
            /\ DOMAIN snap_groups(snap_out) = DOMAIN snap_targets

\* A first run that moved a row of one group onto a point with different x
\* and y and left a row of an unsnapped group alone.
C26_Witness ==
    /\ SnapDone
    /\ \E i, j \in 1..Len(snap_out) :
          /\ snap_mask[i]
          /\ snap_out[i].geometry # snap_in.rows[i].geometry
          /\ snap_out[i].geometry.x # snap_out[i].geometry.y
          /\ ~snap_mask[j]

====
